---- MODULE Spec2Model ----
(***************************************************************************)
(* K-CLI conversation engine: the file-backed chat store (client/          *)
(* chat_reop.go) with its operation queue, worker pool and shutdown, and   *)
(* the turn loop of the engine (client/manager.go).                        *)
(***************************************************************************)
EXTENDS Integers, Sequences, FiniteSets, TLC

\* ------------------------------------------------------------------ bounds
MaxReqs == 2          \* number of ...Async calls made in one behaviour
WorkerCount == 2      \* workerCount handed to NewChatFileRepository
OperationQueueSize == 1   \* capacity of opCh (DefaultOperationQueueSize in the code)

Reqs == 1..MaxReqs
Workers == 1..WorkerCount
IDs == {"a", "b"}

\* ------------------------------------------------------- chat store state
VARIABLES
    cache,       \* FileRepo.cache: ID -> record or NoChat
    file,        \* lines of FileRepo.dataFile, one record per line
    opCh,        \* FileRepo.opCh, the operation queue (request ids)
    opChClosed,  \* close(fr.opCh) has run
    isShutdown,  \* FileRepo.isShutdown
    shutdownCh,  \* TRUE once close(fr.shutdownCh) has run
    req,         \* the opReq of each ...Async call (NoReq before the call)
    pc,          \* position of each ...Async call / its request
    resultCh,    \* the OpResp values written to each call's resultCh
    wpc,         \* position of each worker goroutine
    wreq,        \* the request a worker is processing (0 when none)
    wold,        \* oldChat local of updateChatInternal / deleteChatInternal
    cpc,         \* position of the Close call
    closeQ,      \* the queue as it was when Close was called
    before,      \* the request last taken, and cache and file at that moment
                 \* (recorded by the serial specification only)
    sret,        \* what the synchronous method of each call returned
    later,       \* what the Close calls after the first returned
    locks        \* fr.mu (the worker that holds it, 0 when free), the workers
                 \* that hold cacheMu.RLock, and for each worker inside
                 \* persistCache its chats slice and how far it is
                 \* (recorded by the lock-level specification only)

repoVars == <<cache, file, opCh, opChClosed, isShutdown, shutdownCh, req, pc,
              resultCh, wpc, wreq, wold, cpc, closeQ, before, sret, later, locks>>

\* ------------------------------------------------------------ engine state
VARIABLES
    maxTurns,      \* mgr.config.MaxTurns
    continueExist, \* mgr.continueExist
    messages,      \* mgr.messages, the transcript
    mgrChat,       \* mgr.chat # nil
    stored,        \* the record ChatStore holds under mgr.chatID
    mpc,           \* position of the engine
    inputs,        \* HandleUserTextInput calls made so far
    messageNum,    \* messageNum local of HandleUserTextInput
    turn,          \* turn local of HandleUserTextInput
    message,       \* the message argument of the pending processUserMessage
    calls,         \* CallStreamableChatCompletions calls made by this call
    reply,         \* what the provider returned last in this call
    alwaysTool,    \* every reply of this call held a well-formed tool block and
                   \* every tool call returned text
    persistCalls,  \* the ChatSvr calls persistChat made during this call
    ret,           \* what HandleUserTextInput returned
    promptRepo     \* the names in the prompt repository handed to NewManager,
                   \* as given and as they are now

\* ------------------------------------------------------------ stream state
VARIABLES
    dpc,         \* position of the goroutine of DoCallStreamableChatCompletions
    call,        \* what the server answers: status, body lines, how the body ends
    scanned,     \* lineCount: lines the scanner has handed out
    scanErr,     \* scanner.Err() # nil
    pending,     \* the chunk of the send the goroutine is at
    after,       \* where the goroutine goes once that send is done
    respChan,    \* the buffered stream channel
    chClosed,    \* close(respChan) has run
    sent,        \* every chunk put on respChan, in order
    sawDone,     \* the scanner handed out the line "data: [DONE]"
    cancelled,   \* the caller asked for cancellation while a line was awaited
    kpc,         \* position of the consumer, CallStreamableChatCompletions
    fullContent, \* fullContent of CallStreamableChatCompletions
    kret         \* what CallStreamableChatCompletions returned

strVars == <<dpc, call, scanned, scanErr, pending, after, respChan, chClosed,
             sent, sawDone, cancelled, kpc, fullContent, kret>>


\* -------------------------------------------------------- chat service state
VARIABLES
    svcCache,    \* FileRepo.cache behind ChatSvr: ID -> record or NoRec
    svcFile,     \* the JSON lines of the data file
    clock,       \* what time.Now() returns next
    svcOps,      \* calls made so far
    svcState,    \* "open", "failed" (the repository could not be opened) or
                 \* "panicked"
    out          \* the last call: its arguments and what it returned

svcVars == <<svcCache, svcFile, clock, svcOps, svcState, out>>


\* ------------------------------------------------------ assistant text state
VARIABLES
    parsed,      \* the last assistant text taken apart, and what came out
    completion   \* the transcript handed to the last completion request:
                 \* before the call, after it, and the messages prepared

txtVars == <<parsed, completion>>


mgrVars == <<maxTurns, continueExist, messages, mgrChat, stored, mpc, inputs,
             messageNum, turn, message, calls, reply, alwaysTool, persistCalls, ret,
             promptRepo>>

NoChat == [ID |-> "", Obj |-> 0]
NoReq == [opType |-> "none", ID |-> "", ctx |-> "live", late |-> FALSE]

\* A *Chat handed to the store: the request that carries it is its identity,
\* and chats are created in request order.
Chat(id, r) == [ID |-> id, Obj |-> r]
CreateTime(chat) == chat.Obj

OpTypes == {"opListChats", "opGetChat", "opAddChat", "opUpdateChat", "opDeleteChat"}
Mutating == {"opAddChat", "opUpdateChat", "opDeleteChat"}

OpResp(data, err) == [Data |-> data, Error |-> err]

\* The records of the cache, as a set.
CacheChats(c) == {c[id] : id \in {i \in IDs : c[i] # NoChat}}
FileChats(f) == {f[i] : i \in 1..Len(f)}

\* sort.Slice(chats, CreateTime descending)
RECURSIVE SortDesc(_)
SortDesc(S) ==
    IF S = {} THEN <<>>
    ELSE LET m == CHOOSE x \in S : \A y \in S : CreateTime(x) >= CreateTime(y)
         IN <<m>> \o SortDesc(S \ {m})

\* NewChatFileRepository: loadCacheSync fills the cache from the data file,
\* which is empty or holds a record written by an earlier run.
RepoInit ==
    /\ cache \in {[id \in IDs |-> NoChat],
                  [id \in IDs |-> IF id = "a" THEN Chat("a", 0) ELSE NoChat]}
    /\ file = SortDesc(CacheChats(cache))
    /\ opCh = <<>>
    /\ opChClosed = FALSE
    /\ isShutdown = FALSE
    /\ shutdownCh = FALSE
    /\ req = [r \in Reqs |-> NoReq]
    /\ pc = [r \in Reqs |-> "idle"]
    /\ resultCh = [r \in Reqs |-> <<>>]
    /\ wpc = [w \in Workers |-> "select"]
    /\ wreq = [w \in Workers |-> 0]
    /\ wold = [w \in Workers |-> NoChat]
    /\ cpc = "idle"
    /\ closeQ = <<>>
    /\ before = [req |-> 0, cache |-> cache, file |-> file]
    /\ sret = [r \in Reqs |-> OpResp(NoChat, "pending")]
    /\ later = <<>>
    /\ locks = [mu |-> 0, readers |-> {},
                chats |-> [w \in Workers |-> <<>>],
                stage |-> [w \in Workers |-> "out"]]

\* ------------------------------------------------- submission (...Async)
\* resultCh := make(chan OpResp, 1); then the shutdown check under shutdownMu:
\* a shut-down repository answers from a goroutine, otherwise the call goes on
\* to its select. c is the state of the caller's context when the call is made.
\* The check left out: every call goes on to its select.
ShutdownNotChecked == FALSE

\* fr.isShutdown, read under shutdownMu.RLock.
ShutdownChecked == isShutdown

AsyncCheck(r, op, id, c) ==
    /\ pc[r] = "idle"
    /\ IF r = 1 THEN TRUE ELSE pc[r - 1] # "idle"
    /\ req' = [req EXCEPT ![r] = [opType |-> op, ID |-> id,
                                  ctx |-> IF c THEN "done_at_select" ELSE "live",
                                  late |-> (cpc = "returned")]]
    /\ pc' = [pc EXCEPT ![r] = IF ShutdownChecked THEN "go_shutdown" ELSE "select"]
    /\ UNCHANGED <<cache, file, opCh, opChClosed, isShutdown, shutdownCh,
                   resultCh, wpc, wreq, wold, cpc, closeQ, before, sret, later,
                   locks, mgrVars, strVars, svcVars, txtVars>>

ListChatsAsync(r) == \E c \in BOOLEAN : AsyncCheck(r, "opListChats", "", c)
GetChatAsync(r) == \E id \in IDs, c \in BOOLEAN : AsyncCheck(r, "opGetChat", id, c)
AddChatAsync(r) == \E id \in IDs, c \in BOOLEAN : AsyncCheck(r, "opAddChat", id, c)
UpdateChatAsync(r) == \E id \in IDs, c \in BOOLEAN : AsyncCheck(r, "opUpdateChat", id, c)
DeleteChatAsync(r) == \E id \in IDs, c \in BOOLEAN : AsyncCheck(r, "opDeleteChat", id, c)

\* The caller's context is cancelled while the call waits at its select.
CancelCtx(r) ==
    /\ pc[r] = "select"
    /\ req[r].ctx = "live"
    /\ req' = [req EXCEPT ![r].ctx = "done_later"]
    /\ UNCHANGED <<cache, file, opCh, opChClosed, isShutdown, shutdownCh, pc,
                   resultCh, wpc, wreq, wold, cpc, closeQ, before, sret, later,
                   locks, mgrVars, strVars, svcVars, txtVars>>

\* The cases of the select of an ...Async method that can proceed:
\* the send on opCh (a send on a closed channel proceeds, and panics), and
\* <-ctx.Done(). Go picks one of the ready cases at random.
SelectCases(r) ==
    (IF opChClosed THEN {"panic"}
     ELSE IF Len(opCh) < OperationQueueSize THEN {"enqueue"} ELSE {})
    \cup (IF req[r].ctx # "live" THEN {"ctx"} ELSE {})

AsyncSelect(r) ==
    /\ pc[r] = "select"
    /\ \E case \in SelectCases(r) :
         /\ opCh' = IF case = "enqueue" THEN Append(opCh, r) ELSE opCh
         /\ pc' = [pc EXCEPT ![r] = CASE case = "enqueue" -> "queued"
                                      [] case = "panic" -> "panicked"
                                      [] OTHER -> "go_ctx"]
    /\ UNCHANGED <<cache, file, opChClosed, isShutdown, shutdownCh, req,
                   resultCh, wpc, wreq, wold, cpc, closeQ, before, sret, later,
                   locks, mgrVars, strVars, svcVars, txtVars>>

\* go func() { resultCh <- OpResp{Error: ...} }()
GoRespond(r) ==
    /\ pc[r] \in {"go_shutdown", "go_ctx"}
    /\ resultCh' = [resultCh EXCEPT ![r] = Append(@,
           OpResp(NoChat, IF pc[r] = "go_shutdown" THEN "repository is shutdown"
                          ELSE "context canceled"))]
    /\ pc' = [pc EXCEPT ![r] = "done"]
    /\ UNCHANGED <<cache, file, opCh, opChClosed, isShutdown, shutdownCh, req,
                   wpc, wreq, wold, cpc, closeQ, before, sret, later,
                   locks, mgrVars, strVars, svcVars, txtVars>>

\* ----------------------------------------------------------------- workers
\* case req := <-fr.opCh
TakeCore(w) ==
    /\ wpc[w] = "select"
    /\ opCh # <<>>
    /\ wreq' = [wreq EXCEPT ![w] = Head(opCh)]
    /\ opCh' = Tail(opCh)
    /\ pc' = [pc EXCEPT ![Head(opCh)] = "taken"]
    /\ wpc' = [wpc EXCEPT ![w] = "process"]
    /\ UNCHANGED <<cache, file, opChClosed, isShutdown, shutdownCh, req,
                   resultCh, wold, cpc, closeQ, sret, later,
                   locks, mgrVars, strVars, svcVars, txtVars>>

WorkerTake(w) == TakeCore(w) /\ UNCHANGED before

\* The same step when no other worker holds a request; the operation then runs
\* with no other operation in flight.
WorkerTakeAlone(w) ==
    /\ \A v \in Workers : wreq[v] = 0
    /\ TakeCore(w)
    /\ before' = [req |-> Head(opCh), cache |-> cache, file |-> file]

\* case <-fr.shutdownCh: return (and workerWg.Done)
WorkerShutdown(w) ==
    /\ wpc[w] = "select"
    /\ shutdownCh
    /\ wpc' = [wpc EXCEPT ![w] = "exited"]
    /\ UNCHANGED <<cache, file, opCh, opChClosed, isShutdown, shutdownCh, req,
                   pc, resultCh, wreq, wold, cpc, closeQ, before, sret, later,
                   locks, mgrVars, strVars, svcVars, txtVars>>

\* The end of processOperation: the result goes to the request's resultCh
\* (capacity 1, context.Background() never done), and the worker loops.
SendResult(w, resp) ==
    /\ resultCh' = [resultCh EXCEPT ![wreq[w]] = Append(@, resp)]
    /\ pc' = [pc EXCEPT ![wreq[w]] = "done"]
    /\ wpc' = [wpc EXCEPT ![w] = "select"]
    /\ wreq' = [wreq EXCEPT ![w] = 0]
    /\ wold' = [wold EXCEPT ![w] = NoChat]

\* listChatsInternal with no filter and a limit that cuts nothing.
listChatsInternal(c) == SortDesc(CacheChats(c))

getChatInternalMisses(c, id) == NoChat

getChatInternal(c, id) == c[id]

\* opListChats and opGetChat: read the cache under cacheMu.RLock and answer.
ProcessRead(w) ==
    /\ wpc[w] = "process"
    /\ req[wreq[w]].opType \in {"opListChats", "opGetChat"}
    /\ SendResult(w, IF req[wreq[w]].opType = "opListChats"
                     THEN OpResp(listChatsInternal(cache), "nil")
                     ELSE OpResp(getChatInternal(cache, req[wreq[w]].ID), "nil"))
    /\ UNCHANGED <<cache, file, opCh, opChClosed, isShutdown, shutdownCh, req,
                   cpc, closeQ, before, sret, later,
                   locks, mgrVars, strVars, svcVars, txtVars>>

\* What updateChatInternal and deleteChatInternal return when the ID is not in
\* the cache: (nil, "chat with id ... not found") and (false, nil).
NotFoundDeleted(op) == OpResp(TRUE, "nil")

NotFoundUpdated(op) == OpResp(NoChat, "nil")

NotFound(op) ==
    IF op = "opUpdateChat" THEN OpResp(NoChat, "not found") ELSE OpResp(FALSE, "nil")

\* The cache written with no regard to who reads it.
cacheMuLockIgnored == TRUE

\* fr.cacheMu.Lock(): granted when no goroutine holds cacheMu.RLock. The
\* sections under the write lock are single steps, so no writer is ever
\* found inside one.
cacheMuLock == locks.readers = {}

\* The first critical section (cacheMu.Lock) of addChatInternal,
\* updateChatInternal and deleteChatInternal.
MutateCache(w) ==
    LET r == wreq[w]
        op == req[r].opType
        id == req[r].ID
    IN
    /\ wpc[w] = "process"
    /\ op \in Mutating
    /\ cacheMuLock
    /\ IF op = "opAddChat" THEN
           /\ cache' = [cache EXCEPT ![id] = Chat(id, r)]
           /\ wpc' = [wpc EXCEPT ![w] = "persist"]
           /\ UNCHANGED <<wold, wreq, pc, resultCh>>
       ELSE IF cache[id] = NoChat THEN
           /\ SendResult(w, NotFound(op))
           /\ UNCHANGED cache
       ELSE
           /\ wold' = [wold EXCEPT ![w] = cache[id]]
           /\ cache' = [cache EXCEPT ![id] = IF op = "opUpdateChat"
                                             THEN Chat(id, r) ELSE NoChat]
           /\ wpc' = [wpc EXCEPT ![w] = "persist"]
           /\ UNCHANGED <<wreq, pc, resultCh>>
    /\ UNCHANGED <<file, opCh, opChClosed, isShutdown, shutdownCh, req, cpc, closeQ, before, sret, later,
                   locks, mgrVars, strVars, svcVars, txtVars>>

\* persistChatToFile: os.Create fails and leaves the file alone ("open"), or it
\* truncates the file and the lines are written one by one, all of them ("ok")
\* or only the first k before a Marshal or Write error (k).
PersistOutcomes(chats) ==
    {<<"ok", Len(chats)>>, <<"open", 0>>} \cup {<<"write", k>> : k \in 0..(Len(chats) - 1)}

persistChatToFileFirstLine(f, chats, outcome) ==
    IF outcome[1] = "open" THEN f
    ELSE SubSeq(chats, 1, IF outcome[2] > 1 THEN 1 ELSE outcome[2])

persistChatToFile(f, chats, outcome) ==
    IF outcome[1] = "open" THEN f ELSE SubSeq(chats, 1, outcome[2])

\* The response of a mutating operation that succeeded.
Success(w) ==
    LET r == wreq[w] IN
    IF req[r].opType = "opDeleteChat" THEN OpResp(TRUE, "nil")
    ELSE OpResp(Chat(req[r].ID, r), "nil")

\* persistCache: under fr.mu and cacheMu.RLock, the whole cache sorted by
\* create time descending is written to the file.
PersistCache(w) ==
    /\ wpc[w] = "persist"
    /\ \E outcome \in PersistOutcomes(SortDesc(CacheChats(cache))) :
         /\ file' = persistChatToFile(file, SortDesc(CacheChats(cache)), outcome)
         /\ IF outcome[1] = "ok"
            THEN SendResult(w, Success(w))
            ELSE /\ wpc' = [wpc EXCEPT ![w] = IF outcome[1] = "open" THEN "rollback_open"
                                                ELSE "rollback_write"]
                 /\ UNCHANGED <<wreq, wold, pc, resultCh>>
    /\ UNCHANGED <<cache, opCh, opChClosed, isShutdown, shutdownCh, req, cpc, closeQ, before, sret, later,
                   locks, mgrVars, strVars, svcVars, txtVars>>

\* persistCache step by step. fr.mu.Lock; then cacheMu.RLock and the chats
\* slice, the cache sorted by create time descending; then persistChatToFile:
\* os.Create fails or truncates the file, then the lines are written one by
\* one until all are written or a Marshal or Write fails. Both locks are
\* released on return (defer).
persistCache(w) ==
    LET released == [locks EXCEPT !.mu = 0, !.readers = @ \ {w},
                                  !.chats[w] = <<>>, !.stage[w] = "out"]
        chats == locks.chats[w]
    IN
    /\ wpc[w] = "persist"
    /\ \/ /\ locks.stage[w] = "out"
          /\ locks.mu = 0
          /\ locks' = [locks EXCEPT !.mu = w, !.stage[w] = "mu"]
          /\ UNCHANGED <<file, wpc, wreq, wold, pc, resultCh>>
       \/ /\ locks.stage[w] = "mu"
          /\ locks' = [locks EXCEPT !.readers = @ \cup {w},
                                    !.chats[w] = SortDesc(CacheChats(cache)),
                                    !.stage[w] = "create"]
          /\ UNCHANGED <<file, wpc, wreq, wold, pc, resultCh>>
       \/ /\ locks.stage[w] = "create"
          /\ \/ /\ file' = <<>>
                /\ locks' = [locks EXCEPT !.stage[w] = "write"]
                /\ UNCHANGED <<wpc, wreq, wold, pc, resultCh>>
             \/ /\ wpc' = [wpc EXCEPT ![w] = "rollback_open"]
                /\ locks' = released
                /\ UNCHANGED <<file, wreq, wold, pc, resultCh>>
       \/ /\ locks.stage[w] = "write"
          /\ Len(file) < Len(chats)
          /\ \/ /\ file' = Append(file, chats[Len(file) + 1])
                /\ UNCHANGED <<locks, wpc, wreq, wold, pc, resultCh>>
             \/ /\ wpc' = [wpc EXCEPT ![w] = "rollback_write"]
                /\ locks' = released
                /\ UNCHANGED <<file, wreq, wold, pc, resultCh>>
       \/ /\ locks.stage[w] = "write"
          /\ Len(file) >= Len(chats)
          /\ locks' = released
          /\ SendResult(w, Success(w))
          /\ UNCHANGED file
    /\ UNCHANGED <<cache, opCh, opChClosed, isShutdown, shutdownCh, req, cpc, closeQ,
                   before, sret, later, mgrVars, strVars, svcVars, txtVars>>

\* The rollback critical section after a failed persistCache: add deletes the
\* ID, update and delete put oldChat back. Then the error is returned.
RollbackCache(c, op, id, old) ==
    IF op = "opAddChat" THEN [c EXCEPT ![id] = NoChat]
    ELSE [c EXCEPT ![id] = old]

Rollback(w) ==
    /\ wpc[w] \in {"rollback_open", "rollback_write"}
    /\ cacheMuLock
    /\ cache' = RollbackCache(cache, req[wreq[w]].opType, req[wreq[w]].ID, wold[w])
    /\ SendResult(w, OpResp(IF req[wreq[w]].opType = "opDeleteChat" THEN FALSE ELSE NoChat,
                            IF wpc[w] = "rollback_open" THEN "failed to persist cache: open"
                            ELSE "failed to persist cache: write"))
    /\ UNCHANGED <<file, opCh, opChClosed, isShutdown, shutdownCh, req, cpc, closeQ, before, sret, later,
                   locks, mgrVars, strVars, svcVars, txtVars>>

\* ------------------------------------------------------------------- Close
\* fr.isShutdown = true under shutdownMu.
CloseBegin ==
    /\ cpc = "idle"
    /\ isShutdown' = TRUE
    /\ cpc' = "signal"
    /\ closeQ' = opCh
    /\ UNCHANGED <<cache, file, opCh, opChClosed, shutdownCh, req, pc, resultCh,
                   wpc, wreq, wold, before, sret, later,
                   locks, mgrVars, strVars, svcVars, txtVars>>

\* close(fr.shutdownCh)
CloseSignal ==
    /\ cpc = "signal"
    /\ shutdownCh' = TRUE
    /\ cpc' = "wait"
    /\ UNCHANGED <<cache, file, opCh, opChClosed, isShutdown, req, pc, resultCh,
                   wpc, wreq, wold, closeQ, before, sret, later,
                   locks, mgrVars, strVars, svcVars, txtVars>>

\* fr.workerWg.Wait() returns once every worker has returned; close(fr.opCh).
CloseFinish ==
    /\ cpc = "wait"
    /\ \A w \in Workers : wpc[w] = "exited"
    /\ opChClosed' = TRUE
    /\ cpc' = "returned"
    /\ UNCHANGED <<cache, file, opCh, isShutdown, shutdownCh, req, pc, resultCh,
                   wpc, wreq, wold, closeQ, before, sret, later,
                   locks, mgrVars, strVars, svcVars, txtVars>>

\* The synchronous AddChat once AddChatAsync has returned: its select takes
\* the result when one is on resultCh, or <-ctx.Done() when the context is
\* done; Go picks one of the ready cases at random.
AddChat(r) ==
    /\ req[r].opType = "opAddChat"
    /\ pc[r] \notin {"idle", "select", "panicked"}
    /\ sret[r].Error = "pending"
    /\ \E case \in (IF resultCh[r] # <<>> THEN {"result"} ELSE {})
                    \cup (IF req[r].ctx # "live" THEN {"ctx"} ELSE {}) :
         sret' = [sret EXCEPT ![r] = IF case = "result" THEN resultCh[r][1]
                                     ELSE OpResp(NoChat, "context canceled")]
    /\ UNCHANGED <<cache, file, opCh, opChClosed, isShutdown, shutdownCh, req, pc,
                   resultCh, wpc, wreq, wold, cpc, closeQ, before, later,
                   locks, mgrVars, strVars, svcVars, txtVars>>

\* A Close call that takes shutdownMu after another Close call has: it finds
\* isShutdown set and returns nil. Without the check it would go on to
\* close(fr.shutdownCh), a close of a closed channel.
MaxCloses == 2

CloseAgain ==
    /\ cpc # "idle"
    /\ Len(later) < MaxCloses
    /\ later' = Append(later, IF ShutdownChecked THEN "nil" ELSE "panic")
    /\ UNCHANGED <<cache, file, opCh, opChClosed, isShutdown, shutdownCh, req, pc,
                   resultCh, wpc, wreq, wold, cpc, closeQ, before, sret,
                   locks, mgrVars, strVars, svcVars, txtVars>>

SubmitNext ==
    \E r \in Reqs :
        \/ ListChatsAsync(r)
        \/ GetChatAsync(r)
        \/ AddChatAsync(r)
        \/ UpdateChatAsync(r)
        \/ DeleteChatAsync(r)
        \/ CancelCtx(r)
        \/ AsyncSelect(r)
        \/ GoRespond(r)

WorkNext ==
    \E w \in Workers :
        \/ ProcessRead(w)
        \/ MutateCache(w)
        \/ PersistCache(w)
        \/ Rollback(w)

CloseNext ==
    \/ CloseBegin
    \/ CloseSignal
    \/ CloseFinish
    \/ \E w \in Workers : WorkerShutdown(w)

RepoNext ==
    \/ SubmitNext
    \/ WorkNext
    \/ CloseNext
    \/ \E w \in Workers : WorkerTake(w)

\* The callers call the synchronous AddChat, and Close more than once.
CallersNext ==
    \/ \E r \in Reqs :
          \/ AddChatAsync(r)
          \/ CancelCtx(r)
          \/ AsyncSelect(r)
          \/ GoRespond(r)
          \/ AddChat(r)
    \/ \E w \in Workers :
          \/ WorkerTake(w)
          \/ MutateCache(w)
          \/ PersistCache(w)
          \/ Rollback(w)
    \/ CloseNext
    \/ CloseAgain

\* Operations run one at a time: a worker takes a request only when no other
\* worker holds one.
SerialNext ==
    \/ SubmitNext
    \/ WorkNext
    \/ CloseNext
    \/ \E w \in Workers : WorkerTakeAlone(w)

\* ======================================================= conversation engine
MaxTurnsCap == 2      \* config.MaxTurns ranges over 0..MaxTurnsCap
MaxInputs == 2        \* HandleUserTextInput calls made in one behaviour

\* Assembled text is a sequence of tokens: prose "P", white space "_", the
\* markers of the two tool vocabularies, and the three sub-elements of a block
\* ("ARX": an arguments element that holds no JSON object).
StartTag(tag) == IF tag = "use_mcp_tool" THEN "US" ELSE "RS"
EndTag(tag) == IF tag = "use_mcp_tool" THEN "UE" ELSE "RE"
ToolTags == <<"use_mcp_tool", "access_mcp_resource">>

\* strings.Index: the first position of a token, 0 when absent.
Index(content, tok) ==
    IF \E i \in 1..Len(content) : content[i] = tok
    THEN CHOOSE i \in 1..Len(content) :
             content[i] = tok /\ \A j \in 1..(i - 1) : content[j] # tok
    ELSE 0

Contains(content, tok) == Index(content, tok) # 0

\* strings.TrimSpace
RECURSIVE TrimSpace(_)
TrimSpace(content) ==
    IF content = <<>> THEN <<>>
    ELSE IF Head(content) = "_" THEN TrimSpace(Tail(content))
    ELSE IF content[Len(content)] = "_" THEN TrimSpace(SubSeq(content, 1, Len(content) - 1))
    ELSE content

containsToolUse(content) ==
    \E idx \in 1..Len(ToolTags) :
        Contains(content, StartTag(ToolTags[idx])) /\ Contains(content, EndTag(ToolTags[idx]))

NoTool == <<"nil">>

\* The first tool tag of splitContent: the tag whose start marker comes first.
FirstTag(content) ==
    LET first(tag) == Index(content, StartTag(tag))
        found == {i \in 1..Len(ToolTags) : first(ToolTags[i]) # 0}
    IN IF found = {} THEN ""
       ELSE ToolTags[CHOOSE i \in found : \A j \in found : first(ToolTags[i]) <= first(ToolTags[j])]

\* splitContent that drops the text after the tool block.
splitContentDropsTail(content) ==
    LET firstTagIndex == Index(content, StartTag(FirstTag(content)))
        endIndex == Index(content, EndTag(FirstTag(content)))
    IN IF FirstTag(content) = "" \/ endIndex = 0 THEN <<TrimSpace(content), NoTool>>
       ELSE <<TrimSpace(SubSeq(content, 1, firstTagIndex - 1)),
              TrimSpace(SubSeq(content, firstTagIndex, endIndex))>>

\* splitContent: <<plain content, tool content>>; the tool content is NoTool
\* when no start marker or no end marker of the first tag is found. The end
\* marker is the first one in the whole content: when it lies before the
\* start marker the slice content[firstTagIndex:endIndex] is out of range
\* ("panic"), unless it ends right where the start marker begins, and then
\* the slice is empty and the plain content is the whole content.
splitContent(content) ==
    LET tag == FirstTag(content)
        firstTagIndex == Index(content, StartTag(tag))
        endIndex == Index(content, EndTag(tag))
    IN IF tag = "" \/ endIndex = 0 THEN <<TrimSpace(content), NoTool>>
       ELSE IF endIndex = firstTagIndex - 1 THEN <<TrimSpace(content), <<>>>>
       ELSE IF endIndex < firstTagIndex THEN <<content, <<"panic">>>>
       ELSE <<TrimSpace(SubSeq(content, 1, firstTagIndex - 1)
                        \o SubSeq(content, endIndex + 1, Len(content))),
              TrimSpace(SubSeq(content, firstTagIndex, endIndex))>>

\* The sub-elements of a block, by the value they carry: a server name, a
\* tool name, an arguments element with a JSON object.
ServerElems == {"SN", "SN2"}
ToolElems == {"TN", "TN2"}
ArgElems == {"AR", "AR2"}
ValueOf(tok) ==
    CASE tok = "SN" -> "S" [] tok = "SN2" -> "S2"
      [] tok = "TN" -> "T" [] tok = "TN2" -> "T2"
      [] tok = "AR" -> "A" [] tok = "AR2" -> "A2"
      [] OTHER -> ""

\* FindStringSubmatch: the leftmost element of one kind, "" when there is none
FirstElem(inner, elems) ==
    LET at == {i \in 1..Len(inner) : inner[i] \in elems}
    IN IF at = {} THEN "" ELSE inner[CHOOSE i \in at : \A j \in at : i <= j]

\* MCPToolUse; ok is FALSE for nil
MCPToolUse(server, tool, args) ==
    [ok |-> TRUE, ServerName |-> server, ToolsName |-> tool, Arguments |-> args]
NoToolUse == [ok |-> FALSE, ServerName |-> "", ToolsName |-> "", Arguments |-> ""]

\* The *MCPToolUse ExtractMCPToolUse returns: from the text between the first
\* <use_mcp_tool> and the next </use_mcp_tool>, the first server name, the
\* first tool name and the first arguments element holding a JSON object.
ExtractedToolUse(toolContent) ==
    LET start == Index(toolContent, "US")
        ends == {i \in 1..Len(toolContent) : i > start /\ toolContent[i] = "UE"}
    IN IF start = 0 \/ ends = {} THEN NoToolUse
       ELSE LET stop == CHOOSE i \in ends : \A j \in ends : i <= j
                inner == SubSeq(toolContent, start + 1, stop - 1)
                server == FirstElem(inner, ServerElems)
                tool == FirstElem(inner, ToolElems)
                args == FirstElem(inner, ArgElems)
            IN IF server = "" \/ tool = "" \/ args = "" THEN NoToolUse
               ELSE MCPToolUse(ValueOf(server), ValueOf(tool), ValueOf(args))

\* ExtractMCPToolUse(toolContent) # nil
ExtractMCPToolUse(toolContent) == ExtractedToolUse(toolContent).ok

\* The texts the provider may return.
Contents ==
    { <<"P">>,                                              \* prose only
      <<"P", "_", "US", "SN", "TN", "AR", "UE", "_", "P">>, \* well-formed tool use
      <<"P", "US", "SN", "TN">>,                            \* start marker, no end marker
      <<"US", "TN", "AR", "UE">>,                           \* no server name
      <<"US", "SN", "AR", "UE">>,                           \* no tool name
      <<"P", "US", "SN", "TN", "ARX", "UE">>,               \* no arguments object
      <<"P", "RS", "SN", "RE">> }                           \* access_mcp_resource block

\* What CallStreamableChatCompletions returns nil for.
NoMessage == {"closed", "error", "done"}

Message(role, content, tool) == [Role |-> role, Content |-> content, Tool |-> tool]
NoStored == [present |-> FALSE, Messages |-> <<>>]
NoRet == [Message |-> <<>>, Error |-> "none"]

\* UpdateMessages that keeps every message.
UpdateMessagesUnfiltered(msgs) == msgs

\* Chat.UpdateMessages: the messages without those of role "system".
UpdateMessages(msgs) == SelectSeq(msgs, LAMBDA m : m.Role # "system")

MgrInit ==
    /\ maxTurns = 0
    /\ continueExist = FALSE
    /\ messages = <<>>
    /\ mgrChat = FALSE
    /\ stored = NoStored
    /\ mpc = "new"
    /\ inputs = 0
    /\ messageNum = 0
    /\ turn = 1
    /\ message = Message("user", <<"P">>, FALSE)
    /\ calls = 0
    /\ reply = <<>>
    /\ alwaysTool = TRUE
    /\ persistCalls = <<>>
    /\ ret = NoRet
    /\ promptRepo = [given |-> {}, now |-> {}]

\* A record ChatStore may hold when the engine continues a chat.
EarlierChat ==
    [present |-> TRUE,
     Messages |-> <<Message("user", <<"P">>, FALSE), Message("assistant", <<"P">>, FALSE)>>]

\* NewPromptSvr, ensureDefaultPrompt: each of the two default prompts that
\* PromptByName does not find is added with AddPrompt, which is the
\* repository's UpdatePromptByName; a new item stays in the cache also when
\* the file write fails.
ensureDefaultPrompt(names) ==
    LET withMCP == IF "mcp" \in names THEN names ELSE names \cup {"mcp"}
    IN  IF "deep-research" \in withMCP THEN withMCP
        ELSE withMCP \cup {"deep-research"}

\* NewManager: the configuration, the prompt repository, and either a fresh
\* chat ID or the ID of a chat to continue, which the store may or may not
\* hold.
NewManager ==
    /\ mpc = "new"
    /\ \E given \in SUBSET {"mcp", "deep-research", "custom"} :
         promptRepo' = [given |-> given, now |-> ensureDefaultPrompt(given)]
    /\ maxTurns' \in 0..MaxTurnsCap
    /\ \E cont \in BOOLEAN :
         /\ continueExist' = cont
         /\ stored' \in IF cont THEN {NoStored, EarlierChat} ELSE {NoStored}
    /\ mpc' = "idle"
    /\ UNCHANGED <<repoVars, strVars, svcVars, txtVars, messages, mgrChat, inputs, messageNum, turn, message,
                   calls, reply, alwaysTool, persistCalls, ret>>

\* HandleUserTextInput up to its call of processUserMessage: loadChat when
\* continuing a chat (chat.Messages of a nil chat is a nil dereference),
\* messageNum, the user message, turn = 1.
HandleUserTextInput ==
    /\ mpc \in {"idle", "returned"}
    /\ inputs < MaxInputs
    /\ inputs' = inputs + 1
    /\ IF continueExist /\ ~stored.present
       THEN /\ mpc' = "panicked"
            /\ UNCHANGED <<messages, mgrChat, messageNum>>
       ELSE /\ mpc' = "process"
            /\ messages' = IF continueExist THEN stored.Messages ELSE messages
            /\ mgrChat' = IF continueExist THEN TRUE ELSE mgrChat
            /\ messageNum' = Len(messages')
    /\ turn' = 1
    /\ message' = Message("user", <<"P">>, FALSE)
    /\ calls' = 0
    /\ reply' = <<>>
    /\ alwaysTool' = TRUE
    /\ persistCalls' = <<>>
    /\ ret' = NoRet
    /\ UNCHANGED <<repoVars, strVars, svcVars, txtVars, promptRepo, maxTurns, continueExist, stored>>

\* The bound compared one too far.
TurnLimitOffByOne(t) == t > maxTurns + 1

\* if *turn > mgr.config.MaxTurns
TurnLimitExceeded(t) == t > maxTurns

\* processUserMessage returns at once: the turn bound is exceeded.
TurnExceeded ==
    /\ mpc = "process"
    /\ TurnLimitExceeded(turn)
    /\ mpc' = "return"
    /\ UNCHANGED <<repoVars, strVars, svcVars, txtVars, promptRepo, maxTurns, continueExist, messages, mgrChat, stored, inputs,
                   messageNum, turn, message, calls, reply, alwaysTool,
                   persistCalls, ret>>

\* The message is appended and the completion is requested; the provider
\* returns no message.
ProviderNoMessage ==
    /\ mpc = "process"
    /\ ~TurnLimitExceeded(turn)
    /\ \E why \in NoMessage : reply' = <<why>>
    /\ messages' = Append(messages, message)
    /\ calls' = calls + 1
    /\ alwaysTool' = FALSE
    /\ mpc' = "return"
    /\ UNCHANGED <<repoVars, strVars, svcVars, txtVars, promptRepo, maxTurns, continueExist, mgrChat, stored, inputs, messageNum,
                   turn, message, persistCalls, ret>>

\* persistChat: CreateChat when mgr.chat is nil, else UpdateChat; ok tells
\* whether the store's file rewrite worked. CreateChat stores the messages as
\* they are; UpdateChat replaces the messages of the cached record through
\* UpdateMessages before the rewrite, and the rollback puts that same record back.
persistChat(msgs, ok) ==
    IF ~mgrChat
    THEN /\ persistCalls' = Append(persistCalls, "CreateChat")
         /\ mgrChat' = ok
         /\ stored' = IF ok THEN [present |-> TRUE, Messages |-> msgs] ELSE stored
    ELSE /\ persistCalls' = Append(persistCalls, "UpdateChat")
         /\ mgrChat' = mgrChat
         /\ stored' = [present |-> TRUE, Messages |-> UpdateMessages(msgs)]

\* No tool use in the reply (no marker pair, or no tool content): the
\* assistant message is appended as final and the transcript is persisted.
AssistantFinal ==
    /\ mpc = "process"
    /\ ~TurnLimitExceeded(turn)
    /\ \E content \in Contents, ok \in BOOLEAN :
         /\ ~containsToolUse(content) \/ splitContent(content)[2] = NoTool
         /\ reply' = content
         /\ messages' = messages \o <<message, Message("assistant", content, FALSE)>>
         /\ persistChat(messages', ok)
    /\ calls' = calls + 1
    /\ alwaysTool' = FALSE
    /\ mpc' = "return"
    /\ UNCHANGED <<repoVars, strVars, svcVars, txtVars, promptRepo, maxTurns, continueExist, inputs, messageNum, turn, message, ret>>

\* A marker pair is there but ExtractMCPToolUse returns nil: processUserMessage
\* returns.
ExtractFailed ==
    /\ mpc = "process"
    /\ ~TurnLimitExceeded(turn)
    /\ \E content \in Contents :
         /\ containsToolUse(content)
         /\ splitContent(content)[2] \notin {NoTool, <<"panic">>}
         /\ ~ExtractMCPToolUse(splitContent(content)[2])
         /\ reply' = content
    /\ messages' = Append(messages, message)
    /\ calls' = calls + 1
    /\ alwaysTool' = FALSE
    /\ mpc' = "return"
    /\ UNCHANGED <<repoVars, strVars, svcVars, txtVars, promptRepo, maxTurns, continueExist, mgrChat, stored, inputs, messageNum,
                   turn, message, persistCalls, ret>>

\* What mcpMgr.CallTool can come back with.
ToolResults == {"text", "error", "empty", "other"}

\* A tool invocation is found: the assistant message, with the plain content
\* and the tool annotation, is appended and the tool is called. A text result
\* becomes the tool message of the next processUserMessage, with the turn
\* counter incremented; any other result ends the call.
ToolUse ==
    /\ mpc = "process"
    /\ ~TurnLimitExceeded(turn)
    /\ \E content \in Contents, result \in ToolResults :
         /\ containsToolUse(content)
         /\ splitContent(content)[2] \notin {NoTool, <<"panic">>}
         /\ ExtractMCPToolUse(splitContent(content)[2])
         /\ reply' = content
         /\ messages' = messages \o
                <<message, Message("assistant", splitContent(content)[1], TRUE)>>
         /\ IF result = "text"
            THEN /\ turn' = turn + 1
                 /\ message' = Message("tool", <<"P">>, TRUE)
                 /\ mpc' = "process"
                 /\ UNCHANGED alwaysTool
            ELSE /\ mpc' = "return"
                 /\ alwaysTool' = FALSE
                 /\ UNCHANGED <<turn, message>>
    /\ calls' = calls + 1
    /\ UNCHANGED <<repoVars, strVars, svcVars, txtVars, promptRepo, maxTurns, continueExist, mgrChat, stored, inputs, messageNum,
                   persistCalls, ret>>

\* The end of HandleUserTextInput: the last message of a transcript that grew,
\* else the error "no new message".
HandleReturn ==
    /\ mpc = "return"
    /\ ret' = IF Len(messages) > messageNum
              THEN [Message |-> <<messages[Len(messages)]>>, Error |-> "nil"]
              ELSE [Message |-> <<>>, Error |-> "no new message"]
    /\ mpc' = "returned"
    /\ UNCHANGED <<repoVars, strVars, svcVars, txtVars, promptRepo, maxTurns, continueExist, messages, mgrChat, stored, inputs,
                   messageNum, turn, message, calls, reply, alwaysTool, persistCalls>>

MgrNext ==
    \/ NewManager
    \/ HandleUserTextInput
    \/ TurnExceeded
    \/ ProviderNoMessage
    \/ AssistantFinal
    \/ ExtractFailed
    \/ ToolUse
    \/ HandleReturn

\* ------------------------------------------------------- the stream decoder
MaxLines == 3        \* lines in one response body

DefaultStreamChunkSize == 16

\* ctx of the goroutine is context.Background(): its Done channel never
\* becomes ready and no cancel function exists.
CtxDone == FALSE

\* The lines of a body by what the decoder does with them: "skip" is an empty
\* or non-"data: " line, "sentinel" is "data: [DONE]", "bad" does not
\* unmarshal, "nochoice" has no choices, "data" has a first choice with an
\* optional delta (absent, both fields empty, content, reasoning, both) and a
\* finish_reason or none.
Deltas == {"nil", "empty", "c", "r", "cr"}
Line(k, f, d) == [kind |-> k, finish |-> f, delta |-> d]
Lines ==
    {Line(k, FALSE, "nil") : k \in {"skip", "sentinel", "bad", "nochoice"}}
    \cup {Line("data", f, d) : f \in BOOLEAN, d \in Deltas}
Bodies == UNION {[1..n -> Lines] : n \in 0..MaxLines}

NoCall == [status |-> "none", body |-> <<>>, end |-> "eof"]
Calls ==
    {[status |-> s, body |-> <<>>, end |-> "eof"] : s \in {"err", "non200"}}
    \cup {[status |-> "ok", body |-> b, end |-> e] :
            b \in Bodies, e \in {"eof", "readerr"}}

\* StreamChunk; Error "" is nil.
StreamChunk(content, done, err) == [Content |-> content, Done |-> done, Error |-> err]
NoChunk == StreamChunk("", FALSE, "")

\* content of a delta: Content when non-empty, ReasoningContent otherwise
DeltaContent(d) == IF d \in {"c", "cr"} THEN "c" ELSE IF d = "r" THEN "r" ELSE ""
\* finalContent of a finishing choice: "" when it has no delta
FinalContent(d) == IF d = "nil" THEN "" ELSE DeltaContent(d)

NoKret == [kind |-> "none", Content |-> <<>>]

StreamInit ==
    /\ dpc = "idle"
    /\ call = NoCall
    /\ scanned = 0
    /\ scanErr = FALSE
    /\ pending = NoChunk
    /\ after = "none"
    /\ respChan = <<>>
    /\ chClosed = FALSE
    /\ sent = <<>>
    /\ sawDone = FALSE
    /\ cancelled = FALSE
    /\ kpc = "idle"
    /\ fullContent = <<>>
    /\ kret = NoKret

\* respChan <- chunk, with room in the buffer
Put(chunk) ==
    /\ respChan' = Append(respChan, chunk)
    /\ sent' = Append(sent, chunk)

\* DoCallStreamableChatCompletions makes the channel, starts the goroutine and
\* returns the channel to HandleStreamableChat.
DoCallStreamableChatCompletions ==
    /\ dpc = "idle"
    /\ dpc' = "build"
    /\ kpc' = "first"
    /\ UNCHANGED <<call, scanned, scanErr, pending, after, respChan, chClosed, sent,
                   sawDone, cancelled, fullContent, kret, repoVars, mgrVars, svcVars, txtVars>>

\* BuildRequest: on a marshalling or request-creation failure it sends an error
\* chunk itself and returns the error, and the goroutine then sends its own.
BuildRequest ==
    /\ dpc = "build"
    /\ \E o \in {"ok", "marshal", "newreq"} :
        IF o = "ok"
        THEN /\ dpc' = "do"
             /\ UNCHANGED <<respChan, sent, pending, after>>
        ELSE /\ Put(StreamChunk("", FALSE, o))
             /\ pending' = StreamChunk("", FALSE, "build")
             /\ after' = "return"
             /\ dpc' = "send"
    /\ UNCHANGED <<call, scanned, scanErr, chClosed, sawDone, cancelled, kpc,
                   fullContent, kret, repoVars, mgrVars, svcVars, txtVars>>

\* p.Client.Do(req) and the status check
ClientDo ==
    /\ dpc = "do"
    /\ \E c \in Calls :
        /\ call' = c
        /\ IF c.status = "ok"
           THEN dpc' = "scan" /\ UNCHANGED <<pending, after>>
           ELSE /\ pending' = StreamChunk("", FALSE, IF c.status = "err" THEN "http" ELSE "status")
                /\ after' = "return"
                /\ dpc' = "send"
    /\ UNCHANGED <<scanned, scanErr, respChan, chClosed, sent, sawDone, cancelled, kpc,
                   fullContent, kret, repoVars, mgrVars, svcVars, txtVars>>

\* respChan <- pending: blocks while the buffer is full
Send ==
    /\ dpc = "send"
    /\ Len(respChan) < DefaultStreamChunkSize
    /\ Put(pending)
    /\ dpc' = after
    /\ UNCHANGED <<call, scanned, scanErr, pending, after, chClosed, sawDone, cancelled,
                   kpc, fullContent, kret, repoVars, mgrVars, svcVars, txtVars>>

\* One round of the scanner loop of ProcessStreamableResponse: scanner.Scan()
\* hands out the next line, the ctx check, then the line is decoded.
ScanLine ==
    /\ dpc = "scan"
    /\ scanned < Len(call.body)
    /\ scanned' = scanned + 1
    /\ LET line == call.body[scanned + 1] IN
        IF CtxDone
        THEN /\ pending' = StreamChunk("", FALSE, "ctx")
             /\ after' = "return"
             /\ dpc' = "send"
             /\ UNCHANGED sawDone
        ELSE CASE line.kind \in {"skip", "bad", "nochoice"} ->
                    UNCHANGED <<dpc, pending, after, sawDone>>
               [] line.kind = "sentinel" ->
                    /\ sawDone' = TRUE
                    /\ dpc' = "finish"
                    /\ UNCHANGED <<pending, after>>
               [] line.kind = "data" /\ line.finish ->
                    /\ pending' = StreamChunk(FinalContent(line.delta), TRUE, "")
                    /\ after' = "finish"
                    /\ dpc' = "send"
                    /\ UNCHANGED sawDone
               [] line.kind = "data" /\ ~line.finish /\ line.delta = "nil" ->
                    \* choice.Delta.Content on a nil Delta: the process panics
                    /\ dpc' = "panic"
                    /\ UNCHANGED <<pending, after, sawDone>>
               [] OTHER ->
                    /\ pending' = StreamChunk(DeltaContent(line.delta), FALSE, "")
                    /\ after' = "scan"
                    /\ dpc' = "send"
                    /\ UNCHANGED sawDone
    /\ UNCHANGED <<call, scanErr, respChan, chClosed, sent, cancelled, kpc,
                   fullContent, kret, repoVars, mgrVars, svcVars, txtVars>>

\* scanner.Scan() returns false: end of the body, or a read failure
ScanEnd ==
    /\ dpc = "scan"
    /\ scanned = Len(call.body)
    /\ scanErr' = (call.end = "readerr")
    /\ dpc' = "finish"
    /\ UNCHANGED <<call, scanned, pending, after, respChan, chClosed, sent, sawDone,
                   cancelled, kpc, fullContent, kret, repoVars, mgrVars, svcVars, txtVars>>

\* after the loop: the scanner.Err() check
ScanFinish ==
    /\ dpc = "finish"
    /\ IF scanErr
       THEN /\ pending' = StreamChunk("", FALSE, "read")
            /\ after' = "return"
            /\ dpc' = "send"
       ELSE /\ dpc' = "return"
            /\ UNCHANGED <<pending, after>>
    /\ UNCHANGED <<call, scanned, scanErr, respChan, chClosed, sent, sawDone, cancelled,
                   kpc, fullContent, kret, repoVars, mgrVars, svcVars, txtVars>>

\* the goroutine returns: defer close(respChan)
CloseRespChan ==
    /\ dpc = "return"
    /\ chClosed' = TRUE
    /\ dpc' = "closed"
    /\ UNCHANGED <<call, scanned, scanErr, pending, after, respChan, sent, sawDone,
                   cancelled, kpc, fullContent, kret, repoVars, mgrVars, svcVars, txtVars>>

\* The caller wants the request cancelled while the decoder waits for a line
\* that the server has yet to send.
\* DoCallStreamableChatCompletions hands out no cancel function and its ctx is
\* context.Background(), so the signal reaches nothing.
CancelSignalled ==
    /\ dpc = "scan"
    /\ scanned < Len(call.body)
    /\ ~cancelled
    /\ cancelled' = TRUE
    /\ UNCHANGED <<dpc, call, scanned, scanErr, pending, after, respChan, chClosed,
                   sent, sawDone, kpc, fullContent, kret, repoVars, mgrVars, svcVars, txtVars>>

\* chunk, ok := <-streamCh
CanReceive == dpc # "panic" /\ (respChan # <<>> \/ chClosed)
Received == IF respChan # <<>> THEN [ok |-> TRUE, chunk |-> Head(respChan)]
            ELSE [ok |-> FALSE, chunk |-> NoChunk]

\* What CallStreamableChatCompletions returns: nil, or the assistant message
\* with the assembled content.
NilMessage == [kind |-> "nil", Content |-> <<>>]
AssistantMessage(content) == [kind |-> "message", Content |-> content]

\* The body shared by HandleStreamableChat and waitForNextChunk, followed by
\* what CallStreamableChatCompletions does with the LLMStreamRet.
FirstChunk ==
    /\ CanReceive
    /\ respChan' = IF respChan # <<>> THEN Tail(respChan) ELSE respChan
    /\ LET r == Received IN
        CASE ~r.ok ->
                \* LLMStreamRet{}: no error, not done, no channel
                /\ kret' = AssistantMessage(<<>>)
                /\ kpc' = "returned"
                /\ UNCHANGED fullContent
          [] r.ok /\ r.chunk.Error # "" ->
                /\ kret' = NilMessage
                /\ kpc' = "returned"
                /\ UNCHANGED fullContent
          [] r.ok /\ r.chunk.Error = "" /\ r.chunk.Done ->
                /\ kret' = NilMessage
                /\ kpc' = "returned"
                /\ UNCHANGED fullContent
          [] r.ok /\ r.chunk.Error = "" /\ ~r.chunk.Done /\ r.chunk.Content # "" ->
                /\ fullContent' = <<r.chunk.Content>>
                /\ kpc' = "range"
                /\ UNCHANGED kret
          [] OTHER ->
                /\ kpc' = "wait"
                /\ UNCHANGED <<fullContent, kret>>
    /\ UNCHANGED <<dpc, call, scanned, scanErr, pending, after, chClosed, sent, sawDone,
                   cancelled, repoVars, mgrVars, svcVars, txtVars>>

HandleStreamableChat == kpc = "first" /\ FirstChunk

\* waitForNextChunk that takes whatever comes next for the end of the stream.
waitForNextChunkGivesUp ==
    /\ kpc = "wait"
    /\ CanReceive
    /\ respChan' = IF respChan # <<>> THEN Tail(respChan) ELSE respChan
    /\ kret' = AssistantMessage(<<>>)
    /\ kpc' = "returned"
    /\ UNCHANGED <<dpc, call, scanned, scanErr, pending, after, chClosed, sent, sawDone,
                   cancelled, fullContent, repoVars, mgrVars, svcVars, txtVars>>

waitForNextChunk == kpc = "wait" /\ FirstChunk

\* for chunk := range ret.StreamCh of CallStreamableChatCompletions
RangeStreamCh ==
    /\ kpc = "range"
    /\ CanReceive
    /\ respChan' = IF respChan # <<>> THEN Tail(respChan) ELSE respChan
    /\ LET r == Received
           content == IF r.ok /\ r.chunk.Error = "" /\ r.chunk.Content # ""
                      THEN Append(fullContent, r.chunk.Content) ELSE fullContent
       IN
        /\ fullContent' = content
        /\ IF ~r.ok \/ r.chunk.Error # "" \/ r.chunk.Done
           THEN kret' = AssistantMessage(content) /\ kpc' = "returned"
           ELSE UNCHANGED <<kret, kpc>>
    /\ UNCHANGED <<dpc, call, scanned, scanErr, pending, after, chClosed, sent, sawDone,
                   cancelled, repoVars, mgrVars, svcVars, txtVars>>

StreamNext ==
    \/ DoCallStreamableChatCompletions
    \/ BuildRequest
    \/ ClientDo
    \/ Send
    \/ ScanLine
    \/ ScanEnd
    \/ ScanFinish
    \/ CloseRespChan
    \/ CancelSignalled
    \/ HandleStreamableChat
    \/ waitForNextChunk
    \/ RangeStreamCh

\* ------------------------------------------------------------ chat service
MaxSvcOps == 2       \* ChatSvr calls made in one behaviour
MaxLimit == 2        \* the limit argument of ListChats ranges over 0..MaxLimit

\* Text is a sequence of characters.
LowerOf(ch) ==
    CASE ch = "H" -> "h" [] ch = "I" -> "i" [] ch = "G" -> "g" [] ch = "O" -> "o"
      [] OTHER -> ch
\* strings.ToLower
RECURSIVE ToLower(_)
ToLower(s) == IF s = <<>> THEN <<>> ELSE <<LowerOf(Head(s))>> \o ToLower(Tail(s))
\* strings.Contains
StringsContains(s, substr) ==
    \E k \in 0..(Len(s) - Len(substr)) : SubSeq(s, k + 1, k + Len(substr)) = substr

\* Message.Content is an `any`. Its representations: a Go string ("string"),
\* []*ContentPart ("parts"), and what decoding JSON into `any` gives for an
\* array, []any of map[string]any ("anys"). `texts` are the string itself or
\* the text of each part.
ContentOf(repr, texts) == [repr |-> repr, texts |-> texts]
\* Message: the fields the store looks at. Long: the message alone makes the
\* JSON line of its record longer than bufio.MaxScanTokenSize.
Msg(role, content, model, provider, long) ==
    [Role |-> role, Content |-> content, Model |-> model, Provider |-> provider,
     Long |-> long]

Hi == <<"H", "i">>
Gpt == <<"G", "4">>
OpenAI == <<"O", "a">>
MsgPool ==
    { Msg("user", ContentOf("string", <<Hi>>), <<>>, <<>>, FALSE),
      Msg("assistant", ContentOf("string", <<<<"x">>>>), Gpt, OpenAI, FALSE),
      Msg("user", ContentOf("parts", <<<<"x">>, Hi>>), <<>>, <<>>, FALSE),
      Msg("system", ContentOf("string", <<Hi>>), Gpt, OpenAI, FALSE) }
LongMsg == Msg("tool", ContentOf("string", <<<<"x">>>>), <<>>, <<>>, TRUE)
MsgLists == UNION {[1..n -> MsgPool] : n \in 0..2}

\* Chat
Rec(id, ct, ut, msgs) == [ID |-> id, CreateTime |-> ct, UpdateTime |-> ut, Messages |-> msgs]
NoRec == Rec("", 0, 0, <<>>)

\* sonic.Marshal of a Chat: a string content becomes a JSON string, any other
\* content a JSON array of objects.
MarshalMsg(m) ==
    [m EXCEPT !.Content.repr = IF m.Content.repr = "string" THEN "jstring" ELSE "jarray"]
Marshal(chat) ==
    [chat EXCEPT !.Messages = [i \in 1..Len(chat.Messages) |-> MarshalMsg(chat.Messages[i])]]
\* sonic.UnmarshalString into a Chat: a JSON string becomes a Go string, a
\* JSON array becomes []any.
UnmarshalMsg(j) ==
    [j EXCEPT !.Content.repr = IF j.Content.repr = "jstring" THEN "string" ELSE "anys"]
Unmarshal(line) ==
    [line EXCEPT !.Messages = [i \in 1..Len(line.Messages) |-> UnmarshalMsg(line.Messages[i])]]

\* persistChatToFile with the file written in full: one JSON line per chat
WriteChats(chats) == [i \in 1..Len(chats) |-> Marshal(chats[i])]

\* A line bufio.Scanner cannot hand out with its default buffer.
TooLong(line) == \E i \in 1..Len(line.Messages) : line.Messages[i].Long

\* loadChatFromFile: the chats of the lines up to the first one the scanner
\* fails on, and scanner.Err().
loadChatFromFile(lines) ==
    LET bad == {i \in 1..Len(lines) : TooLong(lines[i])}
        n == IF bad = {} THEN Len(lines)
             ELSE (CHOOSE i \in bad : \A j \in bad : i <= j) - 1
    IN [chats |-> [i \in 1..n |-> Unmarshal(lines[i])],
        err |-> IF bad = {} THEN "" ELSE "bufio.Scanner: token too long"]

SvcChats(c) == {c[id] : id \in {i \in IDs : c[i] # NoRec}}

\* sort.Slice by CreateTime, newest first
RECURSIVE SortByCreateTime(_)
SortByCreateTime(S) ==
    IF S = {} THEN <<>>
    ELSE LET newest == CHOOSE x \in S : \A y \in S : x.CreateTime >= y.CreateTime
         IN <<newest>> \o SortByCreateTime(S \ {newest})

\* persistCache with a working file
SvcPersist(c) == WriteChats(SortByCreateTime(SvcChats(c)))

\* An optional filter string: nil or a pointer to a string.
Nil == [set |-> FALSE, s |-> <<>>]
Ptr(s) == [set |-> TRUE, s |-> s]

\* The keyword test of filterChatsByKeyword on one message: a type switch
\* with the cases string and []any.
contentMatches(content, keyword) ==
    CASE content.repr = "string" ->
            StringsContains(ToLower(content.texts[1]), ToLower(keyword))
      [] content.repr = "anys" ->
            \E i \in 1..Len(content.texts) :
                StringsContains(ToLower(content.texts[i]), ToLower(keyword))
      [] OTHER -> FALSE

\* One round of the message loop of filterChatsByKeyword: no `continue` taken.
msgMatches(msg, keyword, model, provider) ==
    /\ keyword.set => contentMatches(msg.Content, keyword.s)
    /\ model.set =>
        (msg.Model # <<>> /\ StringsContains(ToLower(msg.Model), ToLower(model.s)))
    /\ provider.set =>
        (msg.Provider # <<>> /\ StringsContains(ToLower(msg.Provider), ToLower(provider.s)))

RECURSIVE filterLoop(_, _, _, _, _, _)
filterLoop(chats, keyword, model, provider, limit, filteredChats) ==
    IF chats = <<>> THEN filteredChats
    ELSE LET chat == Head(chats)
             chatMatches == \E i \in 1..Len(chat.Messages) :
                                msgMatches(chat.Messages[i], keyword, model, provider)
             filtered == IF chatMatches THEN Append(filteredChats, chat) ELSE filteredChats
         IN IF chatMatches /\ Len(filtered) >= limit THEN filtered
            ELSE filterLoop(Tail(chats), keyword, model, provider, limit, filtered)

filterChatsByKeyword(allChats, keyword, model, provider, limit) ==
    IF Len(allChats) = 0 \/ (~keyword.set /\ ~model.set /\ ~provider.set)
    THEN allChats
    ELSE filterLoop(allChats, keyword, model, provider, limit, <<>>)

\* listChatsInternal with its filters and limit
listChatsFiltered(c, keyword, model, provider, limit) ==
    LET allChats == filterChatsByKeyword(SortByCreateTime(SvcChats(c)),
                                         keyword, model, provider, limit)
    IN IF Len(allChats) > limit THEN SubSeq(allChats, 1, limit) ELSE allChats

NoQuery == [keyword |-> Nil, model |-> Nil, provider |-> Nil, limit |-> 0]
Out(op, id, msgs, query, old, new, chats, result, err) ==
    [op |-> op, id |-> id, msgs |-> msgs, query |-> query, before |-> old,
     after |-> new, chats |-> chats, result |-> result, err |-> err]
NoOut == Out("none", "", <<>>, NoQuery, NoRec, NoRec, <<>>, <<>>, "")

SvcInit ==
    /\ svcCache = [id \in IDs |-> NoRec]
    /\ svcFile = <<>>
    /\ clock = 1
    /\ svcOps = 0
    /\ svcState = "open"
    /\ out = NoOut

SvcReady == svcState = "open" /\ svcOps < MaxSvcOps

\* ChatSvr.CreateChat -> FileRepo.AddChat -> addChatInternal, with the file
\* rewrite working (ok) or failing at os.Create
SvcCreateChat ==
    /\ SvcReady
    /\ \E id \in IDs, msgs \in MsgLists, ok \in BOOLEAN :
        LET chat == Rec(id, clock, clock + 1, msgs)
            added == [svcCache EXCEPT ![id] = chat]
        IN /\ svcCache' = IF ok THEN added ELSE [svcCache EXCEPT ![id] = NoRec]
           /\ svcFile' = IF ok THEN SvcPersist(added) ELSE svcFile
           /\ out' = Out("CreateChat", id, msgs, NoQuery, svcCache[id],
                         IF ok THEN chat ELSE NoRec, <<>>, <<>>,
                         IF ok THEN "" ELSE "persist")
    /\ clock' = clock + 2
    /\ svcOps' = svcOps + 1
    /\ UNCHANGED <<svcState, repoVars, mgrVars, strVars, txtVars>>

\* ChatSvr.UpdateChat: Chat(id), chat.UpdateMessages(messages) on the record
\* the cache holds, then FileRepo.UpdateChat -> updateChatInternal. With no
\* record under id, UpdateMessages runs on a nil *Chat.
SvcUpdateChat ==
    /\ SvcReady
    /\ \E id \in IDs, msgs \in MsgLists, ok \in BOOLEAN :
        LET chat == svcCache[id]
            updated == [chat EXCEPT !.Messages = UpdateMessages(msgs),
                                    !.UpdateTime = clock]
            stored2 == [svcCache EXCEPT ![id] = updated]
        IN IF chat = NoRec
           THEN /\ svcState' = "panicked"
                /\ out' = Out("UpdateChat", id, msgs, NoQuery, NoRec, NoRec, <<>>, <<>>, "panic")
                /\ UNCHANGED <<svcCache, svcFile, clock>>
           ELSE \* oldChat of updateChatInternal is the record just modified
                /\ svcCache' = stored2
                /\ svcFile' = IF ok THEN SvcPersist(stored2) ELSE svcFile
                /\ clock' = clock + 1
                /\ out' = Out("UpdateChat", id, msgs, NoQuery, chat, updated, <<>>, <<>>,
                              IF ok THEN "" ELSE "persist")
                /\ UNCHANGED svcState
    /\ svcOps' = svcOps + 1
    /\ UNCHANGED <<repoVars, mgrVars, strVars, txtVars>>

\* ChatSvr.DeleteChat -> FileRepo.DeleteChat -> deleteChatInternal
SvcDeleteChat ==
    /\ SvcReady
    /\ \E id \in IDs, ok \in BOOLEAN :
        LET removed == [svcCache EXCEPT ![id] = NoRec] IN
        IF svcCache[id] = NoRec
        THEN /\ out' = Out("DeleteChat", id, <<>>, NoQuery, NoRec, NoRec, <<>>, <<>>, "")
             /\ UNCHANGED <<svcCache, svcFile>>
        ELSE /\ svcCache' = IF ok THEN removed ELSE svcCache
             /\ svcFile' = IF ok THEN SvcPersist(removed) ELSE svcFile
             /\ out' = Out("DeleteChat", id, <<>>, NoQuery, svcCache[id],
                           IF ok THEN NoRec ELSE svcCache[id], <<>>, <<>>,
                           IF ok THEN "" ELSE "persist")
    /\ svcOps' = svcOps + 1
    /\ UNCHANGED <<clock, svcState, repoVars, mgrVars, strVars, txtVars>>

Keywords == {Nil, Ptr(<<"h", "I">>)}
Models == {Nil, Ptr(<<"g">>)}
Providers == {Nil, Ptr(<<"o">>)}

\* ChatSvr.ListChats -> FileRepo.ListChats -> listChatsInternal
SvcListChats ==
    /\ SvcReady
    /\ \E keyword \in Keywords, model \in Models, provider \in Providers,
          limit \in 0..MaxLimit :
        out' = Out("ListChats", "", <<>>,
                   [keyword |-> keyword, model |-> model, provider |-> provider,
                    limit |-> limit],
                   NoRec, NoRec, <<>>,
                   listChatsFiltered(svcCache, keyword, model, provider, limit), "")
    /\ svcOps' = svcOps + 1
    /\ UNCHANGED <<svcCache, svcFile, clock, svcState, repoVars, mgrVars, strVars, txtVars>>

\* The process ends and a new one opens the data file: NewChatFileRepository
\* with loadCacheSync.
SvcReopen ==
    /\ SvcReady
    /\ LET loaded == loadChatFromFile(svcFile)
           ids(id) == {i \in 1..Len(loaded.chats) : loaded.chats[i].ID = id}
       IN IF loaded.err # ""
          THEN svcState' = "failed" /\ UNCHANGED svcCache
          ELSE /\ svcCache' = [id \in IDs |->
                                IF ids(id) = {} THEN NoRec
                                ELSE loaded.chats[CHOOSE i \in ids(id) : \A j \in ids(id) : j <= i]]
               /\ UNCHANGED svcState
    /\ out' = Out("Reopen", "", <<>>, NoQuery, NoRec, NoRec, <<>>, <<>>, "")
    /\ UNCHANGED <<svcFile, clock, svcOps, repoVars, mgrVars, strVars, txtVars>>

\* The chat lists handed to persistChatToFile in a round trip.
RoundTripRecs ==
    {Rec(id, 1, 2, msgs) :
        id \in IDs,
        msgs \in {<<>>, <<LongMsg>>} \cup {<<m>> : m \in MsgPool}}
RoundTripChats ==
    {<<>>} \cup {<<r>> : r \in RoundTripRecs}
    \cup {<<r1, r2>> : r1 \in {r \in RoundTripRecs : r.ID = "a"},
                       r2 \in {r \in RoundTripRecs : r.ID = "b"}}

\* persistChatToFile(file, chats) followed by loadChatFromFile(file)
RoundTrip ==
    /\ SvcReady
    /\ \E chats \in RoundTripChats :
        LET loaded == loadChatFromFile(WriteChats(chats))
        IN out' = Out("RoundTrip", "", <<>>, NoQuery, NoRec, NoRec, chats,
                      loaded.chats, loaded.err)
    /\ svcOps' = svcOps + 1
    /\ UNCHANGED <<svcCache, svcFile, clock, svcState, repoVars, mgrVars, strVars, txtVars>>

SvcNext ==
    \/ SvcCreateChat
    \/ SvcUpdateChat
    \/ SvcDeleteChat
    \/ SvcListChats
    \/ SvcReopen
    \/ RoundTrip

\* ----------------------------------------------------------- assistant text
MaxProse == 2        \* tokens in the prose before and after a tool block

\* Prose: words "P", "Q" and white space "_", no marker.
Prose == UNION {[1..n -> {"P", "Q", "_"}] : n \in 0..MaxProse}

NoParsed ==
    [p1 |-> <<>>, p2 |-> <<>>, server |-> "", tool |-> "", args |-> "",
     content |-> <<>>, contains |-> FALSE, plain |-> <<>>, block |-> NoTool,
     use |-> NoToolUse]

TextInit ==
    /\ parsed = NoParsed
    /\ completion = [before |-> <<>>, after |-> <<>>, prepared |-> <<>>, called |-> FALSE]

\* What processUserMessage does with the content of an assistant message:
\* containsToolUse, splitContent, then ExtractMCPToolUse on the tool content.
\* The text is prose, one use_mcp_tool block with its three elements (white
\* space between them or none), prose.
ParseAssistantText ==
    /\ parsed = NoParsed
    /\ \E p1 \in Prose, p2 \in Prose, server \in ServerElems, tool \in ToolElems,
          args \in ArgElems, gap \in {<<>>, <<"_">>} :
        LET content == p1 \o <<"US">> \o gap \o <<server>> \o gap \o <<tool>> \o gap
                          \o <<args>> \o gap \o <<"UE">> \o p2
            split == splitContent(content)
        IN parsed' = [p1 |-> p1, p2 |-> p2, server |-> server, tool |-> tool,
                      args |-> args, content |-> content,
                      contains |-> containsToolUse(content),
                      plain |-> split[1],
                      block |-> split[2],
                      use |-> IF split[2] \in {NoTool, <<"panic">>} THEN NoToolUse
                              ELSE ExtractedToolUse(split[2])]
    /\ UNCHANGED <<repoVars, mgrVars, strVars, svcVars, completion>>

TextNext == ParseAssistantText

MaxText == 4

\* splitContent applied to the content of an assistant message, as
\* processUserMessage does with every reply before containsToolUse. The content
\* is any text of up to MaxText tokens: prose, white space and the start and
\* end markers of both tool tags, in any order.
SplitAssistantText ==
    /\ parsed = NoParsed
    /\ \E content \in UNION {[1..n -> {"P", "_", "US", "UE", "RS", "RE"}] : n \in 0..MaxText} :
        LET split == splitContent(content)
        IN parsed' = [NoParsed EXCEPT !.content = content,
                                      !.contains = containsToolUse(content),
                                      !.plain = split[1],
                                      !.block = split[2]]
    /\ UNCHANGED <<repoVars, mgrVars, strVars, svcVars, completion>>

\* A message as a completion request sees it: its role, how its content is
\* held (a string, []*ContentPart, or []map[string]any), its Timestamp
\* pointer and its UnixTimestamp. NewMessage sets both stamps; a message
\* built as a literal has neither.
MaxMessages == 2
APIMessage(role, content, stamped) ==
    [Role |-> role, Content |-> content,
     Timestamp |-> IF stamped THEN "set" ELSE "nil",
     UnixTimestamp |-> IF stamped THEN 1 ELSE 0]

\* PrepareMessagesForCompletion: <<the caller's messages afterwards, the
\* prepared messages>>. The system message is a new message in the prepared
\* list only. The caller's messages are pointers: the loop converts the
\* content and clears the stamps of each message itself and appends that
\* same message.
PrepareMessagesForCompletion(msgs, systemPrompt) ==
    LET strip(msg) == [msg EXCEPT !.Content = IF @ = "parts" THEN "maps" ELSE @,
                                  !.Timestamp = "nil",
                                  !.UnixTimestamp = 0]
        stripped == [i \in 1..Len(msgs) |-> strip(msgs[i])]
        system == IF systemPrompt \in {"nil", ""} THEN <<>>
                  ELSE <<[APIMessage("system", "string", TRUE)
                            EXCEPT !.Timestamp = "nil", !.UnixTimestamp = 0]>>
    IN <<stripped, system \o stripped>>

\* CallStreamableChatCompletions(messages, prompt) as far as BuildRequest,
\* which prepares the messages of the request from the transcript.
BuildCompletionRequest ==
    /\ ~completion.called
    /\ \E n \in 0..MaxMessages, systemPrompt \in {"nil", "", "S"} :
        \E msgs \in [1..n -> {APIMessage(role, content, stamped) :
                                 role \in {"user", "assistant", "tool"},
                                 content \in {"string", "parts"},
                                 stamped \in BOOLEAN}] :
            LET done == PrepareMessagesForCompletion(msgs, systemPrompt)
            IN completion' = [before |-> msgs, after |-> done[1],
                              prepared |-> done[2], called |-> TRUE]
    /\ UNCHANGED <<repoVars, mgrVars, strVars, svcVars, parsed>>

\* ---------------------------------------------------------- specifications
vars == <<repoVars, mgrVars, strVars, svcVars, txtVars>>

Init == RepoInit /\ MgrInit /\ StreamInit /\ SvcInit /\ TextInit

\* The chat store under concurrent submitters, workers and Close.
Spec == Init /\ [][RepoNext]_vars

\* The chat store with its operations run one at a time.
SpecCallers == Init /\ [][CallersNext]_vars

SpecSerial == Init /\ [][SerialNext]_vars

\* The workers of the chat store with the locks of persistCache taken and
\* released step by step.
SpecLocks ==
    Init /\ [][\/ \E r \in Reqs :
                     \/ AddChatAsync(r)
                     \/ UpdateChatAsync(r)
                     \/ DeleteChatAsync(r)
                     \/ AsyncSelect(r)
                     \/ GoRespond(r)
                \/ \E w \in Workers :
                     \/ WorkerTake(w)
                     \/ MutateCache(w)
                     \/ persistCache(w)
                     \/ Rollback(w)]_vars

\* The engine over successive user inputs.
SpecMgr == Init /\ [][MgrNext]_vars

\* One streamed completion: the decoding goroutine and its consumer.
SpecStream == Init /\ [][StreamNext]_vars

\* The chat service over a serial repository, and the file round trip.
SpecSvc == Init /\ [][SvcNext]_vars

\* Assistant texts taken apart.
SpecText == Init /\ [][TextNext]_vars

\* The messages of a completion request prepared from a transcript.
SpecPrepare == Init /\ [][BuildCompletionRequest]_vars

\* splitContent over arbitrary assistant texts.
SpecSplit == Init /\ [][SplitAssistantText]_vars

\* ------------------------------------------------------------------ claims
Submitted(r) == pc[r] # "idle"
Answered(r) == resultCh[r] # <<>>
NoWorkerBusy == \A w \in Workers : wreq[w] = 0
AllExited == \A w \in Workers : wpc[w] = "exited"

\* C1: every submitted request gets exactly one OpResp on its channel: never
\* two, and none is left with zero once nothing that could still answer it is
\* running (the workers have returned, no call is at its select, no answering
\* goroutine is pending).
C1_ExactlyOneResponse ==
    \A r \in Reqs :
        /\ Len(resultCh[r]) <= 1
        /\ (/\ AllExited
            /\ \A q \in Reqs : pc[q] \notin {"select", "go_shutdown", "go_ctx"}
            /\ Submitted(r))
           => Len(resultCh[r]) = 1

\* The operation last taken ran alone, has been answered, and its file rewrite
\* failed.
LastFailed ==
    /\ before.req # 0
    /\ NoWorkerBusy
    /\ Answered(before.req)
    /\ resultCh[before.req][1].Error \in
           {"failed to persist cache: open", "failed to persist cache: write"}

\* C2: rollback. After an add, update or delete that ran alone and whose
\* persistCache failed, the cache equals the cache before the call.
C2_Rollback == LastFailed => cache = before.cache

\* C3: after an add, update or delete that ran alone has completed, with or
\* without a failed file rewrite, the file holds the records of the cache.
C3_FileEqualsCache ==
    (/\ before.req # 0
     /\ NoWorkerBusy
     /\ req[before.req].opType \in Mutating)
    => FileChats(file) = CacheChats(cache)

\* Every request of the run has been answered, every failed rewrite failed at
\* os.Create (the file was left alone), and no two adds name the same ID.
AllAnswered == \A r \in Reqs : Answered(r)
OnlyOpenFailures ==
    \A r \in Reqs : Answered(r) => resultCh[r][1].Error # "failed to persist cache: write"
AddsDistinct ==
    \A r, q \in Reqs :
        (r # q /\ req[r].opType = "opAddChat" /\ req[q].opType = "opAddChat")
        => req[r].ID # req[q].ID

\* C4: two writers never race. Once all requests have been answered, cache and
\* file hold the same records, and a record whose add was answered with an
\* error is in neither. Stated on the runs that stay clear of C2 and C3: the
\* rewrites fail only at os.Create and the adds name distinct IDs.
C4_WritersNeverRace ==
    (AllAnswered /\ OnlyOpenFailures /\ AddsDistinct)
    => /\ FileChats(file) = CacheChats(cache)
       /\ \A r \in Reqs :
            (req[r].opType = "opAddChat" /\ resultCh[r][1].Error = "failed to persist cache: open")
            => /\ Chat(req[r].ID, r) \notin CacheChats(cache)
               /\ Chat(req[r].ID, r) \notin FileChats(file)

\* C5: a call made once Close has returned is answered "repository is
\* shutdown" (by its goroutine), is never on the operation queue and never
\* runs; and with Close returned, cache, file and queue no longer change.
C5_AfterCloseState ==
    \A r \in Reqs :
        req[r].late =>
            /\ pc[r] \in {"go_shutdown", "done"}
            /\ \A i \in 1..Len(opCh) : opCh[i] # r
            /\ Answered(r) => resultCh[r] = <<OpResp(NoChat, "repository is shutdown")>>

C5_ShutdownRefuses ==
    /\ []C5_AfterCloseState
    /\ [][cpc = "returned" => (cache' = cache /\ file' = file /\ opCh' = opCh)]_vars

C5_Witness ==
    \E r \in Reqs : req[r].late /\ pc[r] = "done" /\ resultCh[r][1].Error = "repository is shutdown"

\* C6: drain on shutdown. When Close has returned, every request that was on
\* the operation queue when Close was called has been answered.
C6_DrainOnShutdown ==
    cpc = "returned" => \A i \in 1..Len(closeQ) : Answered(closeQ[i])

\* C7: a call whose context is already cancelled when it reaches its select is
\* never enqueued and never run; its channel carries the context's error.
C7_CancelledNeverEnqueued ==
    \A r \in Reqs :
        req[r].ctx = "done_at_select" =>
            /\ pc[r] \notin {"queued", "taken"}
            /\ Answered(r) => resultCh[r][1].Error \in {"context canceled", "repository is shutdown"}

\* C8: turn bound. A call of HandleUserTextInput never issues more than
\* MaxTurns completion requests, and one in which every reply held a
\* well-formed tool block and every tool call returned text issues exactly
\* MaxTurns of them.
C8_TurnBound ==
    /\ calls <= maxTurns
    /\ (mpc = "returned" /\ alwaysTool) => calls = maxTurns

C8_Witness ==
    /\ mpc = "returned"
    /\ alwaysTool
    /\ maxTurns >= 2
    /\ calls = maxTurns
    /\ messages[Len(messages)].Tool

\* C9: when the first completion request of a call returns no message, the
\* call persists nothing, appends no assistant message and returns the error
\* "no new message".
C9_NoNewMessage ==
    (mpc = "returned" /\ calls = 1 /\ reply \in {<<why>> : why \in NoMessage})
    => /\ persistCalls = <<>>
       /\ \A i \in (messageNum + 1)..Len(messages) : messages[i].Role # "assistant"
       /\ ret = [Message |-> <<>>, Error |-> "no new message"]

\* A tool invocation is obtained from the text.
InvocationObtained(content) ==
    /\ containsToolUse(content)
    /\ splitContent(content)[2] \notin {NoTool, <<"panic">>}
    /\ ExtractMCPToolUse(splitContent(content)[2])

\* C10: when the last reply of a call is an assistant text from which no tool
\* invocation is obtained, that text is the final message of the transcript
\* and the transcript was persisted through ChatSvr.
C10_FinalPersisted ==
    (mpc = "returned" /\ reply \in Contents /\ ~InvocationObtained(reply))
    => /\ messages[Len(messages)] = Message("assistant", reply, FALSE)
       /\ persistCalls \in {<<"CreateChat">>, <<"UpdateChat">>}

\* A chunk that ends a stream: Done or carrying an error.
Ending(chunk) == chunk.Done \/ chunk.Error # ""
DoneChunks(s) == {i \in 1..Len(s) : s[i].Done}
ErrorChunks(s) == {i \in 1..Len(s) : s[i].Error # ""}
HasSentinel(body) == \E i \in 1..Len(body) : body[i].kind = "sentinel"

\* C11: stream termination. When the body holds the line "data: [DONE]", the
\* channel, once closed, has carried exactly one chunk with Done set, none
\* with an error, and the Done chunk was the last one.
C11_SentinelOneTerminal ==
    (dpc = "closed" /\ call.status = "ok" /\ HasSentinel(call.body))
    => /\ Cardinality(DoneChunks(sent)) = 1
       /\ ErrorChunks(sent) = {}
       /\ sent[Len(sent)].Done

\* C12: on every stream channel the chunks are received in the order they
\* were produced, and a chunk with Done or an error is the last one put on
\* the channel, so at most one is ever sent.
C12_OneEndingChunkLast ==
    /\ Len(respChan) <= Len(sent)
    /\ respChan = SubSeq(sent, Len(sent) - Len(respChan) + 1, Len(sent))
    /\ \A i \in 1..Len(sent) : Ending(sent[i]) => i = Len(sent)

\* C13: when cancellation is signalled while the decoder waits for the next
\* line, the decoder stops with one error chunk carrying the cancellation
\* cause as the last chunk before the channel is closed.
C13_CancelStopsDecoder ==
    (cancelled /\ dpc = "closed")
    => /\ sent # <<>>
       /\ sent[Len(sent)].Error = "ctx"
       /\ Cardinality(ErrorChunks(sent)) = 1

\* C14: no record in the cache or in the file holds a message of role
\* "system", whatever ChatSvr calls were made.
C14_NoSystemStored ==
    /\ \A id \in IDs : \A i \in 1..Len(svcCache[id].Messages) :
            svcCache[id].Messages[i].Role # "system"
    /\ \A n \in 1..Len(svcFile) : \A i \in 1..Len(svcFile[n].Messages) :
            svcFile[n].Messages[i].Role # "system"

\* The positions of a message list that hold no system message.
Kept(m) == {i \in 1..Len(m) : m[i].Role # "system"}

C17_RoundTrip ==
    out.op = "RoundTrip" => (out.err = "" /\ out.result = out.chats)

\* What the listing is specified over: the text of a message is its string
\* content or the text of any of its content parts; a filter is satisfied by
\* case-insensitive containment.
TextHas(msg, keyword) ==
    \E i \in 1..Len(msg.Content.texts) :
        StringsContains(ToLower(msg.Content.texts[i]), ToLower(keyword))
Satisfies(msg, q) ==
    /\ q.keyword.set => TextHas(msg, q.keyword.s)
    /\ q.model.set => StringsContains(ToLower(msg.Model), ToLower(q.model.s))
    /\ q.provider.set => StringsContains(ToLower(msg.Provider), ToLower(q.provider.s))
Matching(rec, q) == \E i \in 1..Len(rec.Messages) : Satisfies(rec.Messages[i], q)
NoFilter(q) == ~q.keyword.set /\ ~q.model.set /\ ~q.provider.set
Listed == {out.result[i] : i \in 1..Len(out.result)}

\* C18: ListChats returns a record if and only if (up to the limit) one
\* single message of it satisfies all the specified filters at once; with no
\* filter every record matches.
C18_AllFiltersOneMessage ==
    out.op = "ListChats"
    => \A rec \in SvcChats(svcCache) :
         /\ rec \in Listed => (NoFilter(out.query) \/ Matching(rec, out.query))
         /\ ((NoFilter(out.query) \/ Matching(rec, out.query))
                /\ Len(out.result) < out.query.limit) => rec \in Listed

\* C19: with a keyword only, ListChats returns only records with a message
\* whose text holds the keyword, case-insensitively, and a record whose only
\* match is inside a content part is returned too.
C19_KeywordText ==
    (out.op = "ListChats" /\ out.query.keyword.set
        /\ ~out.query.model.set /\ ~out.query.provider.set)
    => \A rec \in SvcChats(svcCache) :
         LET has == \E i \in 1..Len(rec.Messages) :
                        TextHas(rec.Messages[i], out.query.keyword.s)
         IN /\ rec \in Listed => has
            /\ (has /\ Len(out.result) < out.query.limit) => rec \in Listed

\* C20: ListChats returns the first min(limit, number of matching records)
\* matching records, newest first: never more than the limit, and never an
\* older matching record while a newer one is left out.
C20_NewestFirstUpToLimit ==
    out.op = "ListChats"
    => LET q == out.query
           M == {rec \in SvcChats(svcCache) : NoFilter(q) \/ Matching(rec, q)}
           n == IF Cardinality(M) < q.limit THEN Cardinality(M) ELSE q.limit
       IN /\ Len(out.result) = n
          /\ Listed \subseteq M
          /\ \A i \in 1..(Len(out.result) - 1) :
                out.result[i].CreateTime > out.result[i + 1].CreateTime
          /\ \A rec \in M \ Listed : \A x \in Listed : rec.CreateTime < x.CreateTime

\* A run of white space.
RECURSIVE Spaces(_)
Spaces(n) == IF n = 0 THEN <<>> ELSE <<"_">> \o Spaces(n - 1)

\* C16: tool-block round trip. For prose P1, a use_mcp_tool block naming
\* server S, tool T and arguments A, and prose P2, the text is recognised as
\* a tool use, the invocation extracted is {S, T, A}, and the visible text is
\* P1 followed by P2 without its leading and trailing white space.
C16_ToolBlockRoundTrip ==
    parsed # NoParsed
    => /\ parsed.contains
       /\ parsed.use = [ok |-> TRUE, ServerName |-> ValueOf(parsed.server),
                        ToolsName |-> ValueOf(parsed.tool),
                        Arguments |-> ValueOf(parsed.args)]
       /\ \E a, b \in 0..(2 * MaxProse) :
            parsed.p1 \o parsed.p2 = Spaces(a) \o parsed.plain \o Spaces(b)
       /\ parsed.plain # <<>> =>
            (parsed.plain[1] # "_" /\ parsed.plain[Len(parsed.plain)] # "_")

C16_Witness ==
    /\ parsed.p1 = <<"_", "P">>
    /\ parsed.p2 = <<"Q", "_">>
    /\ parsed.plain = <<"P", "Q">>
    /\ parsed.use = MCPToolUse("S2", "T", "A2")

\* The request last taken ran alone and has been answered.
LastAnswered == before.req # 0 /\ NoWorkerBusy /\ Answered(before.req)

\* A worker is rewriting the file, or rolling back after a failed rewrite.
Rewriting(w) == wpc[w] \in {"persist", "rollback_open", "rollback_write"}

\* C21: DeleteChat of an ID that is not in the cache is answered (false, nil)
\* and leaves cache and file as they were, also when it is applied again; and
\* no delete reaches the file rewrite without having found its record.
C21_DeleteAbsentNoOp ==
    /\ (/\ LastAnswered
         /\ req[before.req].opType = "opDeleteChat"
         /\ before.cache[req[before.req].ID] = NoChat)
        => /\ resultCh[before.req] = <<OpResp(FALSE, "nil")>>
           /\ cache = before.cache
           /\ file = before.file
    /\ \A w \in Workers :
         (Rewriting(w) /\ req[wreq[w]].opType = "opDeleteChat") => wold[w] # NoChat

\* The same absent ID deleted twice, next to a record that stays.
C21_Witness ==
    /\ LastAnswered
    /\ before.req = 2
    /\ \A r \in 1..2 : /\ req[r].opType = "opDeleteChat"
                        /\ req[r].ID = "b"
                        /\ Answered(r)
                        /\ resultCh[r][1].Error = "nil"
                        /\ resultCh[r][1].Data = FALSE
    /\ cache["a"] = Chat("a", 0)
    /\ file = <<Chat("a", 0)>>

\* C22: UpdateChat with a record whose ID is not in the cache is answered with
\* the not-found error, the record is not inserted, cache and file stay as
\* they were, and no such update reaches the file rewrite.
C22_UpdateAbsentNotFound ==
    /\ (/\ LastAnswered
         /\ req[before.req].opType = "opUpdateChat"
         /\ before.cache[req[before.req].ID] = NoChat)
        => /\ resultCh[before.req] = <<OpResp(NoChat, "not found")>>
           /\ cache[req[before.req].ID] = NoChat
           /\ cache = before.cache
           /\ file = before.file
    /\ \A w \in Workers :
         (Rewriting(w) /\ req[wreq[w]].opType = "opUpdateChat") => wold[w] # NoChat

C22_Witness ==
    /\ LastAnswered
    /\ req[before.req].opType = "opUpdateChat"
    /\ req[before.req].ID = "b"
    /\ resultCh[before.req] = <<OpResp(NoChat, "not found")>>
    /\ cache["a"] = Chat("a", 0)
    /\ cache["b"] = NoChat
    /\ file = <<Chat("a", 0)>>

\* The record with this ID on the file, NoChat when there is none.
OnFile(id) ==
    IF \E i \in 1..Len(file) : file[i].ID = id
    THEN file[CHOOSE i \in 1..Len(file) : file[i].ID = id]
    ELSE NoChat

PersistFailed(r) ==
    resultCh[r][1].Error \in {"failed to persist cache: open", "failed to persist cache: write"}

\* C23: calls made one after the other on an open repository whose file
\* rewrites work. Chat(id), the second call, returns the record the first call
\* stored under id with a successful AddChat or UpdateChat; nil when the first
\* call was a DeleteChat of id that returned true; and otherwise the record the
\* repository was opened with, nil when id was never added. Its error is nil.
C23_ChatReturnsLatest ==
    (/\ LastAnswered
     /\ before.req = 2
     /\ Answered(1)
     /\ ~PersistFailed(1)
     /\ ~isShutdown
     /\ req[2].opType = "opGetChat")
    => LET id == req[2].ID
           first == resultCh[1][1]
           touched == req[1].ID = id /\ req[1].opType \in Mutating /\ first.Error = "nil"
       IN /\ resultCh[2][1].Error = "nil"
          /\ resultCh[2][1].Data =
                IF touched /\ req[1].opType \in {"opAddChat", "opUpdateChat"}
                THEN Chat(id, 1)
                ELSE IF touched /\ first.Data = TRUE THEN NoChat
                ELSE OnFile(id)

\* The record the repository was opened with was deleted, and Chat returns nil.
C23_Witness ==
    /\ LastAnswered
    /\ before.req = 2
    /\ req[1].opType = "opDeleteChat"
    /\ req[1].ID = "a"
    /\ Answered(1)
    /\ resultCh[1][1].Error = "nil"
    /\ resultCh[1][1].Data = TRUE
    /\ req[2].opType = "opGetChat"
    /\ req[2].ID = "a"
    /\ resultCh[2] = <<OpResp(NoChat, "nil")>>

\* The synchronous call has returned.
Returned(r) == sret[r].Error # "pending"

\* C24: concurrent AddChat calls with distinct IDs, live contexts, an open
\* repository, several workers and working file rewrites. Every call returns
\* its record and a nil error, and afterwards the cache, the file and what
\* ListChats lists hold exactly those records (next to a loaded record whose ID
\* was not added again), each once.
C24_ConcurrentAdds ==
    (/\ \A r \in Reqs : /\ req[r].opType = "opAddChat"
                         /\ req[r].ctx = "live"
                         /\ Returned(r)
                         /\ ~PersistFailed(r)
     /\ AddsDistinct
     /\ cpc = "idle")
    => LET added == {Chat(req[r].ID, r) : r \in Reqs}
           listed == listChatsInternal(cache)
       IN /\ \A r \in Reqs : sret[r] = OpResp(Chat(req[r].ID, r), "nil")
          /\ added \subseteq CacheChats(cache)
          /\ \A chat \in CacheChats(cache) \ added :
                chat = Chat("a", 0) /\ \A r \in Reqs : req[r].ID # "a"
          /\ FileChats(file) = CacheChats(cache)
          /\ Len(file) = Cardinality(CacheChats(cache))
          /\ {listed[i] : i \in 1..Len(listed)} = CacheChats(cache)
          /\ Len(listed) = Cardinality(CacheChats(cache))

C24_Witness ==
    /\ \A r \in Reqs : /\ req[r].opType = "opAddChat"
                        /\ req[r].ctx = "live"
                        /\ sret[r] = OpResp(Chat(req[r].ID, r), "nil")
    /\ AddsDistinct
    /\ cpc = "idle"
    /\ Len(file) = MaxReqs

\* C25: the synchronous AddChat called with a context that is already
\* cancelled, on an open repository, returns the error context.Canceled and no
\* record.
C25_CancelledAddReturnsCanceled ==
    \A r \in Reqs :
        (/\ req[r].opType = "opAddChat"
         /\ req[r].ctx = "done_at_select"
         /\ cpc = "idle"
         /\ Returned(r))
        => sret[r] = OpResp(NoChat, "context canceled")

\* A step of a later Close leaves the repository alone.
LaterCloseChangesNothing ==
    (later' # later) =>
        UNCHANGED <<cache, file, opCh, opChClosed, isShutdown, shutdownCh,
                    req, pc, resultCh, wpc, wreq, wold, cpc>>

\* Flag, signal and closed queue change only in the first Close, which passes
\* each of its steps once.
FirstCloseOnly ==
    /\ (isShutdown' # isShutdown) => (cpc = "idle" /\ isShutdown')
    /\ (shutdownCh' # shutdownCh) => (cpc = "signal" /\ shutdownCh')
    /\ (opChClosed' # opChClosed) => (cpc = "wait" /\ opChClosed')

\* C26: Close is idempotent. The first Close sets the shutdown flag, signals
\* the workers and closes the queue, each once and in that order; every later
\* Close, also one made while the first is still running, returns nil and
\* changes nothing of the repository.
C26_LaterCloseReturnsNil == \A i \in 1..Len(later) : later[i] = "nil"

C26_CloseIdempotent ==
    /\ []C26_LaterCloseReturnsNil
    /\ [][LaterCloseChangesNothing]_vars
    /\ [][FirstCloseOnly]_vars

\* One later Close returned while the first was still running, another after
\* it had returned.
C26_Witness ==
    /\ cpc = "returned"
    /\ later = <<"nil", "nil">>
    /\ opChClosed

\* The chunks the consumer has taken off the channel, in order.
Consumed == SubSeq(sent, 1, Len(sent) - Len(respChan))

\* A chunk with empty content, Done = false and no error.
EmptyChunk(chunk) == chunk.Content = "" /\ ~chunk.Done /\ chunk.Error = ""

\* The first chunk taken that is not empty, 0 when every chunk taken is empty.
FirstTelling ==
    IF \A i \in 1..Len(Consumed) : EmptyChunk(Consumed[i]) THEN 0
    ELSE CHOOSE i \in 1..Len(Consumed) :
            /\ ~EmptyChunk(Consumed[i])
            /\ \A j \in 1..(i - 1) : EmptyChunk(Consumed[j])

\* C27: first-chunk handling. While only empty chunks have been taken the
\* consumer is still in HandleStreamableChat or waitForNextChunk, unless the
\* channel was closed; and the result is that of the first chunk with
\* content, Done or an error: the content starts the message, Done and an
\* error end the call with no message and with no further chunk taken.
C27_EmptyChunksSkipped ==
    LET n == FirstTelling IN
    /\ kpc \in {"first", "wait"} => n = 0
    /\ kpc = "wait" => Len(Consumed) >= 1
    /\ (kpc \in {"range", "returned"} /\ n = 0)
        => /\ kpc = "returned"
           /\ chClosed
           /\ respChan = <<>>
    /\ (kpc \in {"range", "returned"} /\ n # 0)
        => IF Consumed[n].Error # "" \/ Consumed[n].Done
           THEN /\ kpc = "returned"
                /\ kret = NilMessage
                /\ Len(Consumed) = n
           ELSE /\ fullContent # <<>>
                /\ fullContent[1] = Consumed[n].Content

\* Two empty chunks, then one with content, which starts the message.
C27_Witness ==
    /\ Len(Consumed) >= 3
    /\ EmptyChunk(Consumed[1])
    /\ EmptyChunk(Consumed[2])
    /\ Consumed[3].Content # ""
    /\ fullContent # <<>>
    /\ fullContent[1] = Consumed[3].Content

\* The loop was aborted at the turn bound and HandleUserTextInput has returned.
AbortedAtBound == mpc = "returned" /\ TurnLimitExceeded(turn)

\* C28: when the turn loop is aborted at the turn bound, the assistant
\* messages appended during that call are in the record the store holds when
\* the call returns.
C28_BoundTranscriptPersisted ==
    AbortedAtBound =>
        \A i \in (messageNum + 1)..Len(messages) :
            messages[i].Role = "assistant" =>
                /\ stored.present
                /\ i <= Len(stored.Messages)
                /\ stored.Messages[i] = messages[i]

\* C29: when the loop stops at the turn bound, every assistant message of the
\* transcript that carries a tool invocation is immediately followed by the
\* tool message with its result.
C29_NoDanglingToolCall ==
    AbortedAtBound =>
        \A i \in 1..Len(messages) :
            (messages[i].Role = "assistant" /\ messages[i].Tool) =>
                /\ i < Len(messages)
                /\ messages[i + 1].Role = "tool"

\* C30: when an error chunk comes after one or more content chunks,
\* CallStreamableChatCompletions returns no message.
C30_ErrorAfterContent ==
    (/\ kpc = "returned"
     /\ \E i, j \in 1..Len(Consumed) :
          /\ i < j
          /\ Consumed[i].Content # ""
          /\ Consumed[j].Error # "")
    => kret = NilMessage

\* The messages a call of HandleUserTextInput has appended so far.
Appended == (messageNum + 1)..Len(messages)

\* C31: every turn in which a tool invocation is found and the tool returns
\* text adds two messages to the transcript: the tool-annotated assistant
\* message, then the tool message. When processUserMessage has returned, the
\* call has appended one tool message for each such turn (the turn counter
\* counts them), each right after a tool-annotated assistant message.
C31_ToolTurnAddsPair ==
    mpc \in {"return", "returned"} =>
        /\ Cardinality({i \in Appended : messages[i].Role = "tool"}) = turn - 1
        /\ \A i \in Appended :
              messages[i].Role = "tool" =>
                  /\ i - 1 \in Appended
                  /\ messages[i - 1].Role = "assistant"
                  /\ messages[i - 1].Tool

\* C34: when the file rewrite fails during ChatSvr.UpdateChat on an existing
\* record, the cache afterwards holds the record as it was before the call.
C34_ServiceRollback ==
    (out.op = "UpdateChat" /\ out.err = "persist") => svcCache[out.id] = out.before

\* The data lines the scanner has handed out, and the chunks made from lines:
\* those sent that carry no error, and the one about to be sent.
DataLines == SelectSeq(SubSeq(call.body, 1, scanned), LAMBDA l : l.kind = "data")
LineChunks ==
    SelectSeq(sent, LAMBDA c : c.Error = "")
    \o (IF dpc = "send" /\ pending.Error = "" THEN <<pending>> ELSE <<>>)

\* C35: content extraction. Every data line with a choice yields one chunk,
\* terminal when the choice has a finish reason; its content is the delta's
\* content when that is non-empty and its reasoning content otherwise, and
\* empty when the choice has no delta.
C35_ContentExtraction ==
    /\ Len(LineChunks) = Len(DataLines)
    /\ \A i \in 1..Len(DataLines) :
          /\ LineChunks[i].Content = DeltaContent(DataLines[i].delta)
          /\ LineChunks[i].Done = DataLines[i].finish

\* C37: no ...Async call sends on the operation queue once Close has closed
\* it.
C37_NoSendOnClosedQueue == \A r \in Reqs : pc[r] # "panicked"

\* The contents of chunks, the empty ones left out.
RECURSIVE Concat(_)
Concat(chunks) ==
    IF chunks = <<>> THEN <<>>
    ELSE (IF Head(chunks).Content # "" THEN <<Head(chunks).Content>> ELSE <<>>)
         \o Concat(Tail(chunks))

\* C38: no content is lost in assembly. When the chunks taken end with a Done
\* chunk, none carries an error and some carry content, the message returned
\* holds the contents of all of them, in order.
C38_NoContentLost ==
    (/\ kpc = "returned"
     /\ Consumed # <<>>
     /\ Consumed[Len(Consumed)].Done
     /\ \A i \in 1..Len(Consumed) : Consumed[i].Error = ""
     /\ Concat(Consumed) # <<>>)
    => kret = AssistantMessage(Concat(Consumed))

\* C40: an absent chat ID never ends in a failure of the process, in
\* ChatSvr.UpdateChat or in the engine's loadChat.
C40_AbsentIDNoFailure == svcState # "panicked" /\ mpc # "panicked"

\* C32: constructing the engine and running HandleUserTextInput never changes
\* the contents of the prompt repository.
C32_PromptRepoOnlyRead == promptRepo.now = promptRepo.given

\* The first position after position from at which tok occurs, 0 when none.
IndexAfter(content, tok, from) ==
    IF \E i \in (from + 1)..Len(content) : content[i] = tok
    THEN CHOOSE i \in (from + 1)..Len(content) :
             content[i] = tok /\ \A j \in (from + 1)..(i - 1) : content[j] # tok
    ELSE 0

\* What the split of a text is to be: the block from the earliest start
\* marker to the matching end marker after it, and the rest trimmed; the
\* trimmed text and no block when there is no such pair.
SplitExpected(content) ==
    LET tag == FirstTag(content)
        start == Index(content, StartTag(tag))
        end == IndexAfter(content, EndTag(tag), start)
    IN IF tag = "" \/ end = 0 THEN <<TrimSpace(content), NoTool>>
       ELSE <<TrimSpace(SubSeq(content, 1, start - 1)
                        \o SubSeq(content, end + 1, Len(content))),
              TrimSpace(SubSeq(content, start, end))>>

\* C36: for every assistant text splitContent completes and honours only the
\* tag whose start marker comes first: the block runs from that start marker
\* to the matching end marker after it, the visible text is the rest,
\* trimmed; without such a pair it returns the trimmed text and no block.
C36_SplitEveryText ==
    /\ parsed.block # <<"panic">>
    /\ <<parsed.plain, parsed.block>> = SplitExpected(parsed.content)

\* C39: requesting a completion leaves the transcript unchanged: every
\* message passed has the same role, content representation, timestamp and
\* unix timestamp afterwards, and the system prompt message is in the
\* request only.
C39_TranscriptUnchanged ==
    completion.called =>
        /\ completion.after = completion.before
        /\ \A i \in 1..Len(completion.after) : completion.after[i].Role # "system"

\* A worker is inside the file rewrite: it holds fr.mu and cacheMu.RLock, has
\* taken its chats slice and is creating or writing the file.
InRewrite(w) == w \in locks.readers

\* No step changes the cache while a worker is inside the file rewrite.
NoMutationDuringRewrite == (\E w \in Workers : InRewrite(w)) => cache' = cache

====
